---- MODULE Spec2Model ----
(***************************************************************************)
(* Advanced File Encrypter: the session cache (SessionManager), the        *)
(* container codec (encode / decode over encryptText / decryptText) and    *)
(* the save pipeline of EncryptedMarkdownView, as state machines.          *)
(*                                                                         *)
(*   Spec       the session cache: put, getPassword, getKey, clearFile,    *)
(*              clear, setMode, handleRename, the expiry timers, the clock *)
(*   SpecCodec  encode, tampering with a stored container, decode          *)
(*   SpecView   one EncryptedMarkdownView: save, onLoadFile, onUnloadFile  *)
(*              and the host save pipeline reading getViewData             *)
(*   SpecLock   the view's inline cards: doUnlock, doEncrypt, with         *)
(*              setState and lockAndClose; SpecUnlock, the unlock form     *)
(*   SpecConvert  NoteConverter: toEncrypted / toDecrypted, renames, the   *)
(*              pending flow; SpecDecrypt, conversions and the cache       *)
(***************************************************************************)
EXTENDS Integers, Sequences, FiniteSets, Bags, TLC

VARIABLES
    \* ---- SessionManager (src/src/services/session-manager.ts) ----
    entries,            \* Map<string, SessionEntry>, in insertion order
    timers,             \* Map<string, timer handle>: path -> handle
    mode,               \* SessionMode
    sessionTimeoutMs,
    timedWindowMs,
    \* ---- the host's clock and timer queue ----
    now,                \* Date.now()
    ticks,              \* how many times the clock has advanced
    orphans,            \* bag of callbacks still scheduled whose handle timers lost
    \* ---- the container codec (session-manager.ts 396-425, src/src/crypto) ----
    container,          \* the .locked document last written by encode, as stored
    origin,             \* the arguments of the encode call that wrote it
    tampered,           \* how the stored document was changed since: none/bytes/text
    result,             \* outcome of the last decode call
    encLog,             \* every AES-GCM encryption so far: key, iv, salt, bytes
    rngDraws,           \* number of crypto.getRandomValues calls so far
    \* ---- one EncryptedMarkdownView (src/unnamed/part_000) ----
    file,               \* this.file: the path of the file the view shows
    fileData,
    currentPassword,
    cachedPlaintext,
    encryptedJsonForSave,
    isSavingEnabled,
    isLoadingFile,
    isSavingInProgress,
    editorData,         \* the editor's text, what super.getViewData() returns
    saveCalls,          \* the calls of save(): where each stands, its locals
    loadCall,           \* the call of onLoadFile
    unloadCall,         \* the call of onUnloadFile
    changeCall,         \* the call of changePassword
    \* ---- history ----
    putUntil,           \* per path: the time up to which its last put is to keep
                        \* its entry cached, NoExpiry when no such put is in force
    migrateFailures,    \* how many times a migrateIfNeeded of the view ended in its catch
    \* ---- the view's inline cards and its other handlers (src/unnamed/part_000) ----
    overlay,            \* the card over the editor: none / message / unlock / encrypt
    unlockCall,         \* the call of doUnlock (the unlock card's submit handler)
    encryptCall,        \* the call of doEncrypt (the set-password card's submit handler)
    stateCall,          \* the call of setState
    lockCall,           \* the call of lockAndClose
    \* ---- the plugin and its NoteConverter (src/src/features/whole-note) ----
    notePath,           \* TFile.path of the note
    noteExt,            \* TFile.extension of the note
    isConverting,       \* NoteConverter.isConverting
    pendingPlaintext,   \* AFEPlugin.pendingPlaintext: Map<path, plaintext>
    convCalls,          \* the calls of toEncrypted / toDecrypted
    leafOpen            \* whether a leaf shows the note

smVars == <<entries, timers, mode, sessionTimeoutMs, timedWindowMs, now, ticks, orphans>>

codecVars == <<container, origin, tampered, result, encLog, rngDraws>>

viewVars == <<file, fileData, currentPassword, cachedPlaintext, encryptedJsonForSave,
              isSavingEnabled, isLoadingFile, isSavingInProgress, editorData,
              saveCalls, loadCall, unloadCall, changeCall>>

histVars == <<putUntil, migrateFailures>>

flowVars == <<unlockCall, encryptCall, stateCall, lockCall>>

convVars == <<notePath, noteExt, isConverting, pendingPlaintext, convCalls, leafOpen>>

appVars == <<overlay, flowVars, convVars>>

vars == <<smVars, codecVars, viewVars, histVars, appVars>>

----------------------------------------------------------------------------
(* Bounds of the model *)

\* the clock advances at most this many times
MaxTicks == 1
\* at most this many scheduled callbacks have lost their handle
MaxOrphans == 1
\* at most this many encode calls
MaxEncodes == 2
\* at most this many calls of save() on the view
MaxSaves == 2
\* at most this many migrations of the view fail
MaxFailures == 2
\* at most this many calls of toEncrypted / toDecrypted
MaxConversions == 2

\* JS null / undefined for a password, a key, an expiry.  A string is the
\* sequence of its UTF-16 code units; null is what no string is.
NoPassword == <<-1>>
NoKey == [material |-> <<-1>>]
NoExpiry == -1

(* Text and byte conversions of the codec.  A string is the sequence of its *)
(* UTF-16 code units, a Uint8Array the sequence of its bytes.               *)

IsHighSurrogate(u) == u \in 55296..56319
IsLowSurrogate(u) == u \in 56320..57343

\* the UTF-8 bytes of one Unicode scalar value
ScalarBytes(cp) ==
    IF cp < 128 THEN <<cp>>
    ELSE IF cp < 2048 THEN <<192 + (cp \div 64), 128 + (cp % 64)>>
    ELSE IF cp < 65536
         THEN <<224 + (cp \div 4096), 128 + ((cp \div 64) % 64), 128 + (cp % 64)>>
         ELSE <<240 + (cp \div 262144), 128 + ((cp \div 4096) % 64),
                128 + ((cp \div 64) % 64), 128 + (cp % 64)>>

\* the UTF-16 code units of one Unicode scalar value
ScalarUnits(cp) ==
    IF cp < 65536 THEN <<cp>>
    ELSE <<55296 + ((cp - 65536) \div 1024), 56320 + ((cp - 65536) % 1024)>>

\* new TextEncoder().encode(str): a surrogate pair is one scalar value, a lone
\* surrogate is replaced by U+FFFD
RECURSIVE TextEncode(_)
TextEncode(str) ==
    IF str = <<>> THEN <<>>
    ELSE IF IsHighSurrogate(str[1]) /\ Len(str) >= 2 /\ IsLowSurrogate(str[2])
         THEN ScalarBytes(65536 + (str[1] - 55296) * 1024 + (str[2] - 56320))
                \o TextEncode(SubSeq(str, 3, Len(str)))
    ELSE IF IsHighSurrogate(str[1]) \/ IsLowSurrogate(str[1])
         THEN ScalarBytes(65533) \o TextEncode(Tail(str))
         ELSE ScalarBytes(str[1]) \o TextEncode(Tail(str))

IsContinuation(b) == b \in 128..191

\* the UTF-8 decoder, non-fatal: a byte that starts no sequence becomes U+FFFD
RECURSIVE DecodeScalars(_)
DecodeScalars(b) ==
    IF b = <<>> THEN <<>>
    ELSE IF b[1] < 128 THEN <<b[1]>> \o DecodeScalars(Tail(b))
    ELSE IF b[1] \in 194..223 /\ Len(b) >= 2 /\ IsContinuation(b[2])
         THEN ScalarUnits((b[1] - 192) * 64 + (b[2] - 128))
                \o DecodeScalars(SubSeq(b, 3, Len(b)))
    ELSE IF /\ b[1] \in 224..239 /\ Len(b) >= 3
            /\ IsContinuation(b[2]) /\ IsContinuation(b[3])
         THEN ScalarUnits((b[1] - 224) * 4096 + (b[2] - 128) * 64 + (b[3] - 128))
                \o DecodeScalars(SubSeq(b, 4, Len(b)))
    ELSE IF /\ b[1] \in 240..244 /\ Len(b) >= 4
            /\ IsContinuation(b[2]) /\ IsContinuation(b[3]) /\ IsContinuation(b[4])
         THEN ScalarUnits((b[1] - 240) * 262144 + (b[2] - 128) * 4096
                            + (b[3] - 128) * 64 + (b[4] - 128))
                \o DecodeScalars(SubSeq(b, 5, Len(b)))
         ELSE <<65533>> \o DecodeScalars(Tail(b))

\* new TextDecoder().decode(bytes): ignoreBOM is false by default, so a leading
\* byte order mark (EF BB BF, U+FEFF) is consumed and not part of the string
TextDecode(b) ==
    LET str == DecodeScalars(b)
    IN  IF str # <<>> /\ str[1] = 65279 THEN Tail(str) ELSE str

\* the base64 alphabet: the character (code) of a 6-bit value
B64Char(v) ==
    IF v < 26 THEN 65 + v
    ELSE IF v < 52 THEN 97 + (v - 26)
    ELSE IF v < 62 THEN 48 + (v - 52)
    ELSE IF v = 62 THEN 43 ELSE 47

\* the 6-bit value of a character, -1 for a character outside the alphabet
B64Value(c) ==
    IF c \in 65..90 THEN c - 65
    ELSE IF c \in 97..122 THEN c - 71
    ELSE IF c \in 48..57 THEN c + 4
    ELSE IF c = 43 THEN 62
    ELSE IF c = 47 THEN 63 ELSE -1

\* the character '='
B64Pad == 61

\* btoa(binary): every three bytes give four characters, a last group of one or
\* two bytes is filled up with '='
Btoa(b) ==
    LET n == Len(b)
        at(j) == IF j <= n THEN b[j] ELSE 0
        char(k) ==
            LET g == 3 * ((k - 1) \div 4)
                r == (k - 1) % 4
            IN  IF r = 0 THEN B64Char(at(g + 1) \div 4)
                ELSE IF r = 1 THEN B64Char((at(g + 1) % 4) * 16 + (at(g + 2) \div 16))
                ELSE IF r = 2
                     THEN IF g + 2 > n THEN B64Pad
                          ELSE B64Char((at(g + 2) % 16) * 4 + (at(g + 3) \div 64))
                     ELSE IF g + 3 > n THEN B64Pad ELSE B64Char(at(g + 3) % 64)
    IN  [k \in 1..(4 * ((n + 2) \div 3)) |-> char(k)]

\* the bytes of a sequence of 6-bit values; the bits left over at the end (4 of
\* 12, 2 of 18) are dropped without being looked at
SextetsToBytes(v) ==
    LET m == Len(v)
        at(k) == IF k <= m THEN v[k] ELSE 0
        byte(j) ==
            LET g == 4 * ((j - 1) \div 3)
                r == (j - 1) % 3
            IN  IF r = 0 THEN at(g + 1) * 4 + (at(g + 2) \div 16)
                ELSE IF r = 1 THEN (at(g + 2) % 16) * 16 + (at(g + 3) \div 4)
                ELSE (at(g + 3) % 4) * 64 + at(g + 4)
    IN  [j \in 1..((m * 6) \div 8) |-> byte(j)]

IsAsciiWhitespace(c) == c \in {9, 10, 12, 13, 32}

\* atob(data), the forgiving-base64 decode: ASCII whitespace is removed, one or
\* two '=' are removed from the end of a string whose length is a multiple of 4,
\* then a length of 1 mod 4 or a character outside the alphabet is an
\* InvalidCharacterError
Atob(data) ==
    LET stripped == SelectSeq(data, LAMBDA c : ~IsAsciiWhitespace(c))
        n == Len(stripped)
        cut == IF n % 4 = 0 /\ n >= 2 /\ stripped[n] = B64Pad /\ stripped[n - 1] = B64Pad
                  THEN 2
               ELSE IF n % 4 = 0 /\ n >= 1 /\ stripped[n] = B64Pad THEN 1 ELSE 0
        body == SubSeq(stripped, 1, n - cut)
    IN  IF Len(body) % 4 = 1 \/ \E i \in 1..Len(body) : B64Value(body[i]) = -1
        THEN [ok |-> FALSE, bytes |-> <<>>]
        ELSE [ok |-> TRUE,
              bytes |-> SextetsToBytes([i \in 1..Len(body) |-> B64Value(body[i])])]

\* uint8ArrayToBase64(bytes)
Uint8ArrayToBase64(bytes) == Btoa(bytes)

\* base64ToUint8Array(base64); not ok: atob threw
Base64ToUint8Array(base64) == Atob(base64)

\* the lower-case hexadecimal digit of v, the value of a hexadecimal digit
\* (-1 when c is none)
HexChar(v) == IF v < 10 THEN 48 + v ELSE 87 + v
HexValue(c) ==
    IF c >= 48 /\ c <= 57 THEN c - 48
    ELSE IF c >= 97 /\ c <= 102 THEN c - 87
    ELSE IF c >= 65 /\ c <= 70 THEN c - 55
    ELSE -1

\* backslash, u and the four hexadecimal digits of the code unit c
UnicodeEscape(c) ==
    <<92, 117, HexChar(c \div 4096), HexChar((c \div 256) % 16),
      HexChar((c \div 16) % 16), HexChar(c % 16)>>

\* JSON.stringify of a string, without the enclosing quotes, with no escaping
JsonEscapeNone(c, lone) == <<c>>

\* JSON.stringify of a string: what it writes for the code unit c, lone telling
\* whether c is a surrogate without its partner
JsonEscape(c, lone) ==
    CASE c = 8 -> <<92, 98>>
      [] c = 9 -> <<92, 116>>
      [] c = 10 -> <<92, 110>>
      [] c = 12 -> <<92, 102>>
      [] c = 13 -> <<92, 114>>
      [] c = 34 -> <<92, 34>>
      [] c = 92 -> <<92, 92>>
      [] c < 32 \/ lone -> UnicodeEscape(c)
      [] OTHER -> <<c>>

\* whether the code unit at position i of str is a surrogate without its partner
IsLoneSurrogate(str, i) ==
    \/ IsHighSurrogate(str[i]) /\ ~(i < Len(str) /\ IsLowSurrogate(str[i + 1]))
    \/ IsLowSurrogate(str[i]) /\ ~(i > 1 /\ IsHighSurrogate(str[i - 1]))

\* JSON.stringify(str) for a string, without the enclosing quotes
RECURSIVE JsonQuoteFrom(_, _)
JsonQuoteFrom(str, i) ==
    IF i > Len(str) THEN <<>>
    ELSE JsonEscape(str[i], IsLoneSurrogate(str, i)) \o JsonQuoteFrom(str, i + 1)

JsonQuote(str) == JsonQuoteFrom(str, 1)

\* the code unit a one-letter escape of JSON stands for, -1 when it is none
JsonSimpleEscape(c) ==
    CASE c = 34 -> 34
      [] c = 92 -> 92
      [] c = 47 -> 47
      [] c = 98 -> 8
      [] c = 102 -> 12
      [] c = 110 -> 10
      [] c = 114 -> 13
      [] c = 116 -> 9
      [] OTHER -> -1

\* JSON.parse of the inside of a string literal, from position i on: the string
\* it denotes, not ok where JSON.parse throws a SyntaxError
RECURSIVE JsonUnquoteFrom(_, _)
JsonUnquoteFrom(text, i) ==
    IF i > Len(text) THEN [ok |-> TRUE, str |-> <<>>]
    ELSE IF text[i] = 34 \/ text[i] < 32 THEN [ok |-> FALSE, str |-> <<>>]
    ELSE IF text[i] # 92
         THEN LET rest == JsonUnquoteFrom(text, i + 1)
              IN  [ok |-> rest.ok, str |-> <<text[i]>> \o rest.str]
    ELSE IF i = Len(text) THEN [ok |-> FALSE, str |-> <<>>]
    ELSE IF text[i + 1] = 117
         THEN IF i + 5 > Len(text) \/ \E k \in 2..5 : HexValue(text[i + k]) = -1
              THEN [ok |-> FALSE, str |-> <<>>]
              ELSE LET rest == JsonUnquoteFrom(text, i + 6)
                       c == HexValue(text[i + 2]) * 4096 + HexValue(text[i + 3]) * 256
                              + HexValue(text[i + 4]) * 16 + HexValue(text[i + 5])
                   IN  [ok |-> rest.ok, str |-> <<c>> \o rest.str]
    ELSE IF JsonSimpleEscape(text[i + 1]) = -1 THEN [ok |-> FALSE, str |-> <<>>]
    ELSE LET rest == JsonUnquoteFrom(text, i + 2)
         IN  [ok |-> rest.ok, str |-> <<JsonSimpleEscape(text[i + 1])>> \o rest.str]

JsonUnquote(text) == JsonUnquoteFrom(text, 1)

----------------------------------------------------------------------------
(* The container codec: encryptText / decryptText and encode / decode.      *)
(* PBKDF2 and AES-GCM are the platform's (crypto.subtle); they are modelled *)
(* as ideal: a derived key is determined by, and determines, everything     *)
(* that went into its derivation, and a decryption succeeds on exactly what *)
(* an encryption under the same key and iv produced.                        *)

\* DEFAULT_ENCRYPTION_PARAMS
DEFAULT_ENCRYPTION_PARAMS ==
    [algorithm |-> "AES-GCM", keySize |-> 256, ivLength |-> 16,
     keyDerivation |-> [function |-> "PBKDF2", hash |-> "SHA-512",
                        iterations |-> 210000, saltLength |-> 16]]

LEGACY_FEP_FORMAT == "file-encrypt-plus"
LEGACY_FEP_VERSION == 1
AFE_FORMAT == "advanced-file-encryption"
AFE_VERSION == 2

\* length in bytes of the authentication tag AES-GCM appends (128 bits)
TagLength == 16

\* no document stored, no decode made yet
NoContainer == [format |-> "<none>"]
NoOrigin == [plaintext |-> <<>>, password |-> <<>>, hint |-> <<>>, made |-> FALSE]
NoResult == [kind |-> "none", value |-> <<>>, password |-> <<>>]

\* plaintexts and hints given to encode (strings of code units):
\* "", "a", "ab", "e-acute", U+FEFF "a", "a" U+FEFF, U+1F600
Plaintexts ==
    {<<>>, <<97>>, <<97, 98>>, <<233>>, <<65279, 97>>, <<97, 65279>>, <<55357, 56832>>}
\* "", "h"
HintTexts == {<<>>, <<104>>}
\* the plaintexts of the tamper runs: one for each length of the last base64 group
ShortPlaintexts == {<<>>, <<97>>, <<97, 98>>}

\* crypto.getRandomValues(new Uint8Array(length)), the draw-th call: fresh bytes,
\* different from those of every other call
GetRandomValues(draw, length) == [i \in 1..length |-> (draw * 89 + i * 37 + 11) % 256]

\* generateIv whose bytes do not depend on the call
GenerateIvFixed(draw, length) == GetRandomValues(0, length)

\* generateIv(length)
GenerateIv(draw, length) == GetRandomValues(draw, length)

\* generateSalt(length)
GenerateSalt(draw, length) == GetRandomValues(draw, length)

\* derivePbkdf2Key(password, salt, iterations, hash, keyBits, extractable)
DerivePbkdf2Key(password, salt, iterations, hash, keyBits) ==
    [material |-> TextEncode(password), salt |-> salt, iterations |-> iterations,
     hash |-> hash, length |-> keyBits]

\* deriveKey that leaves the password out of the key
DeriveKeyWithoutPassword(password, salt, params) ==
    DerivePbkdf2Key(<<>>, salt, params.keyDerivation.iterations,
                    params.keyDerivation.hash, params.keySize)

\* PasswordKeyProvider.deriveKey(password, salt, params, extractable)
DeriveKey(password, salt, params) ==
    DerivePbkdf2Key(password, salt, params.keyDerivation.iterations,
                    params.keyDerivation.hash, params.keySize)

\* the bytes crypto.subtle.encrypt returns: as many as the plaintext has, then the
\* tag; which bytes they are stands for the cipher's output
CipherBytes(plain, key, iv) ==
    LET n == Len(plain)
        mix == Len(key.material) + key.salt[1] + iv[1]
    IN  [i \in 1..(n + TagLength) |->
            IF i <= n THEN (plain[i] + mix + i) % 256 ELSE (mix * 3 + n + i * 7) % 256]

\* aesGcmEncrypt(plaintext, key, iv)
AesGcmEncrypt(plaintext, key, iv) == CipherBytes(TextEncode(plaintext), key, iv)

\* the encryptions made with this key and iv that gave this ciphertext
Sealed(ciphertext, key, iv) ==
    {i \in 1..Len(encLog) :
        encLog[i].key = key /\ encLog[i].iv = iv /\ encLog[i].ciphertext = ciphertext}

\* aesGcmDecrypt(ciphertext, key, iv): crypto.subtle.decrypt rejects whatever no
\* encryption with this key and iv produced, and the catch turns that into null
AesGcmDecrypt(ciphertext, key, iv) ==
    IF Sealed(ciphertext, key, iv) = {}
    THEN [kind |-> "null", value |-> <<>>]
    ELSE [kind |-> "value",
          value |-> TextDecode(encLog[CHOOSE i \in Sealed(ciphertext, key, iv) : TRUE].plain)]

\* encryptText(plaintext, password, params), its random bytes being those of
\* calls draw and draw + 1
EncryptText(plaintext, password, params, draw) ==
    LET iv == GenerateIv(draw, params.ivLength)
        salt == GenerateSalt(draw + 1, params.keyDerivation.saltLength)
        key == DeriveKey(password, salt, params)
        ciphertext == AesGcmEncrypt(plaintext, key, iv)
        packed == iv \o salt \o ciphertext
    IN  [data |-> Uint8ArrayToBase64(packed), params |-> params,
         key |-> key, iv |-> iv, salt |-> salt,
         plain |-> TextEncode(plaintext), ciphertext |-> ciphertext]

\* decryptText that throws on data shorter than iv, salt and one byte
DecryptTextShortThrows(base64Data, password, params) ==
    LET packed == Base64ToUint8Array(base64Data)
        ivLen == params.ivLength
        saltLen == params.keyDerivation.saltLength
        bytes == packed.bytes
        iv == SubSeq(bytes, 1, ivLen)
        salt == SubSeq(bytes, ivLen + 1, ivLen + saltLen)
        ciphertext == SubSeq(bytes, ivLen + saltLen + 1, Len(bytes))
    IN  IF ~packed.ok THEN [kind |-> "throw", value |-> <<>>]
        ELSE IF Len(bytes) < ivLen + saltLen + 1 THEN [kind |-> "throw", value |-> <<>>]
        ELSE AesGcmDecrypt(ciphertext, DeriveKey(password, salt, params), iv)

\* decryptText(base64Data, password, params)
DecryptText(base64Data, password, params) ==
    LET packed == Base64ToUint8Array(base64Data)
        ivLen == params.ivLength
        saltLen == params.keyDerivation.saltLength
        bytes == packed.bytes
        iv == SubSeq(bytes, 1, ivLen)
        salt == SubSeq(bytes, ivLen + 1, ivLen + saltLen)
        ciphertext == SubSeq(bytes, ivLen + saltLen + 1, Len(bytes))
    IN  IF ~packed.ok THEN [kind |-> "throw", value |-> <<>>]
        ELSE IF Len(bytes) < ivLen + saltLen + 1 THEN [kind |-> "null", value |-> <<>>]
        ELSE AesGcmDecrypt(ciphertext, DeriveKey(password, salt, params), iv)

\* decryptTextWithKey(base64Data, key, params)
DecryptTextWithKey(base64Data, key, params) ==
    LET packed == Base64ToUint8Array(base64Data)
        ivLen == params.ivLength
        saltLen == params.keyDerivation.saltLength
        bytes == packed.bytes
        iv == SubSeq(bytes, 1, ivLen)
        ciphertext == SubSeq(bytes, ivLen + saltLen + 1, Len(bytes))
    IN  IF ~packed.ok THEN [kind |-> "throw", value |-> <<>>]
        ELSE IF Len(bytes) < ivLen + saltLen + 1 THEN [kind |-> "null", value |-> <<>>]
        ELSE AesGcmDecrypt(ciphertext, key, iv)

\* what encLog keeps of an encryption
Logged(encrypted, plaintext, password) ==
    [key |-> encrypted.key, iv |-> encrypted.iv, salt |-> encrypted.salt,
     plain |-> encrypted.plain, ciphertext |-> encrypted.ciphertext,
     data |-> encrypted.data, plaintext |-> plaintext, password |-> password]

\* a document of the legacy format, as parse accepts it
LegacyFileData(hint, encrypted) ==
    [format |-> LEGACY_FEP_FORMAT, version |-> LEGACY_FEP_VERSION,
     encryption |-> encrypted.params, keyType |-> "password", hint |-> hint,
     data |-> encrypted.data]

\* a text that is not a JSON document
Text(units) == [format |-> "<text>", text |-> units]

\* the document encode returns, JSON.stringify(fileData, null, 2).  A JSON text is
\* represented by the object it denotes (what JSON.parse makes of it), a text
\* JSON.parse throws on by its code units under the format "<text>".  The
\* members format, keyType and data are written as they are (none of their
\* characters is escaped), the numbers are integers; the hint is written as
\* the string literal JsonQuote(hint).
FileData(hint, encrypted) ==
    LET written == JsonQuote(hint)
        read == JsonUnquote(written)
    IN  IF read.ok
        THEN [format |-> AFE_FORMAT, version |-> AFE_VERSION,
              encryption |-> encrypted.params, keyType |-> "password",
              hint |-> read.str, data |-> encrypted.data]
        ELSE Text(written)

\* what the JSON text null denotes, and a JSON value with no member format (a
\* number, a string, an array, an object without it)
JsonNull == [format |-> "<null>"]
JsonNoFormat == [format |-> "<undefined>"]

\* JSON.parse(raw): not ok when it throws a SyntaxError
JsonParse(raw) == [ok |-> raw.format # "<text>", data |-> raw]

\* parse that takes every JSON object for a document
ParseAnyObject(raw) ==
    LET parsed == JsonParse(raw)
    IN  IF ~parsed.ok THEN [ok |-> FALSE, error |-> "SyntaxError", fileData |-> raw]
        ELSE IF parsed.data = JsonNull
        THEN [ok |-> FALSE, error |-> "TypeError", fileData |-> raw]
        ELSE [ok |-> TRUE, error |-> "", fileData |-> parsed.data]

\* parse(raw): not ok when it throws, error being the exception: that of
\* JSON.parse, that of reading data.format of null, or parse's own
Parse(raw) ==
    LET parsed == JsonParse(raw)
    IN  IF ~parsed.ok THEN [ok |-> FALSE, error |-> "SyntaxError", fileData |-> raw]
        ELSE IF parsed.data = JsonNull
        THEN [ok |-> FALSE, error |-> "TypeError", fileData |-> raw]
        ELSE IF parsed.data.format # AFE_FORMAT /\ parsed.data.format # LEGACY_FEP_FORMAT
        THEN [ok |-> FALSE, error |-> "Error", fileData |-> raw]
        ELSE [ok |-> TRUE, error |-> "", fileData |-> parsed.data]

AFE_PENDING_FORMAT == "advanced-file-encryption-pending"

\* isEncryptedFile that knows the current tag only
IsEncryptedFileCurrentOnly(raw) ==
    LET parsed == JsonParse(raw)
    IN  IF ~parsed.ok \/ parsed.data = JsonNull THEN FALSE
        ELSE parsed.data.format = AFE_FORMAT

\* isEncryptedFile(raw): false where JSON.parse, or reading data.format of null,
\* throws inside its try
IsEncryptedFile(raw) ==
    LET parsed == JsonParse(raw)
    IN  IF ~parsed.ok \/ parsed.data = JsonNull THEN FALSE
        ELSE parsed.data.format = AFE_FORMAT \/ parsed.data.format = LEGACY_FEP_FORMAT

\* createPendingFile(): the text JSON.stringify makes of the marker object
CreatePendingFile == [format |-> AFE_PENDING_FORMAT, version |-> AFE_VERSION]

\* isPendingFile that finds no marker
IsPendingFileNever(raw) == FALSE

\* isPendingFile(raw)
IsPendingFile(raw) ==
    LET parsed == JsonParse(raw)
    IN  IF ~parsed.ok \/ parsed.data = JsonNull THEN FALSE
        ELSE parsed.data.format = AFE_PENDING_FORMAT

\* needsMigration that looks at the format tag only
NeedsMigrationLegacyOnly(data) == data.format = LEGACY_FEP_FORMAT

\* needsMigration(data); undefined < AFE_VERSION is false
NeedsMigration(data) ==
    \/ data.format = LEGACY_FEP_FORMAT
    \/ ("version" \in DOMAIN data /\ data.version < AFE_VERSION)

\* decode that decrypts under the default parameters, whatever the document states
DecodeWithDefaults(jsonString, password) ==
    LET parsed == Parse(jsonString)
    IN  IF ~parsed.ok THEN [kind |-> "throw", value |-> <<>>]
        ELSE DecryptText(parsed.fileData.data, password, DEFAULT_ENCRYPTION_PARAMS)

\* decode(jsonString, password): a plaintext, null, or an exception
Decode(jsonString, password) ==
    LET parsed == Parse(jsonString)
    IN  IF ~parsed.ok THEN [kind |-> "throw", value |-> <<>>]
        ELSE DecryptText(parsed.fileData.data, password, parsed.fileData.encryption)

----------------------------------------------------------------------------
(* Inputs of the session cache *)
Paths == {"A.txt", "B.txt"}
\* a path that is looked up but never stored
QueryPaths == Paths \cup {"C.txt"}
\* the passwords "p1" and "e-acute", the hint "h"
Passwords == {<<112, 49>>, <<233>>}
Hints == {<<104>>}
\* the key derived from the password "p1" and the salt of the first encryption
Keys == {DeriveKey(<<112, 49>>, GenerateSalt(1, 16), DEFAULT_ENCRYPTION_PARAMS)}
\* the (password, key) pairs offered to put: no key, or the key derived from the password
Credentials == {<<<<112, 49>>, k>> : k \in Keys} \cup {<<<<233>>, NoKey>>}
Modes == {"session-password", "timed-password", "keys-only", "no-storage"}
\* minutes offered to setSessionTimeout, seconds offered to setTimedWindow
MinuteChoices == {-1, 0, 1}
SecondChoices == {1, 60}
\* the amounts (ms) by which the clock advances in one step
ClockSteps == {60000}

----------------------------------------------------------------------------
(* SessionManager: pure helpers *)

\* minutes <= 0 ? 0 : minutes * 60 * 1000
MinutesToMs(minutes) == IF minutes <= 0 THEN 0 ELSE minutes * 60 * 1000

\* seconds * 1000
SecondsToMs(seconds) == seconds * 1000

\* the position of path p in the entries map, 0 when it has no entry
IndexOf(p) ==
    IF \E i \in 1..Len(entries) : entries[i].path = p
    THEN CHOOSE i \in 1..Len(entries) : entries[i].path = p
    ELSE 0

HasEntry(p) == IndexOf(p) # 0

\* isExpired without the timestamp check: expiry left to the timer alone
IsExpiredNever(e) == FALSE

\* private isExpired(entry)
IsExpired(e) ==
    IF e.expiry = NoExpiry THEN FALSE ELSE now > e.expiry

\* Map.delete(p) on a map kept as a sequence
MapDelete(m, p) == SelectSeq(m, LAMBDA e : e.path # p)

\* Map.set(p, entry): an existing key keeps its position, a new key goes last
MapSet(m, e) ==
    IF \E i \in 1..Len(m) : m[i].path = e.path
    THEN [i \in 1..Len(m) |-> IF m[i].path = e.path THEN e ELSE m[i]]
    ELSE Append(m, e)

\* getPassword without the loop over the other entries: exact path only
PasswordSourceExactOnly(p) ==
    IF mode = "no-storage" \/ mode = "keys-only" THEN 0
    ELSE LET i == IndexOf(p)
         IN  IF i # 0 /\ entries[i].password # NoPassword /\ ~IsExpired(entries[i])
             THEN i ELSE 0

\* the entry getPassword takes its answer from: its position, or 0 for null
PasswordSource(p) ==
    IF mode = "no-storage" \/ mode = "keys-only" THEN 0
    ELSE LET i == IndexOf(p)
             Usable(j) == entries[j].password # NoPassword /\ ~IsExpired(entries[j])
         IN  IF i # 0 /\ Usable(i) THEN i
             ELSE IF \E j \in 1..Len(entries) : Usable(j)
                  THEN CHOOSE j \in 1..Len(entries) :
                          Usable(j) /\ \A k \in 1..(j - 1) : ~Usable(k)
                  ELSE 0

\* getPassword(filePath)
GetPassword(p) ==
    IF PasswordSource(p) = 0 THEN NoPassword ELSE entries[PasswordSource(p)].password

\* getKey that, like getPassword, falls back on the first unexpired entry of
\* another path that has a key
KeySourceShared(p) ==
    LET i == IndexOf(p)
        Usable(j) == entries[j].key # NoKey /\ ~IsExpired(entries[j])
    IN  IF i # 0 /\ Usable(i) THEN i
        ELSE IF \E j \in 1..Len(entries) : Usable(j)
             THEN CHOOSE j \in 1..Len(entries) :
                     Usable(j) /\ \A k \in 1..(j - 1) : ~Usable(k)
             ELSE 0

\* the entry getKey takes its answer from: its position, or 0 for null
KeySource(p) ==
    LET i == IndexOf(p)
    IN  IF i = 0 THEN 0 ELSE IF IsExpired(entries[i]) THEN 0 ELSE i

\* getKey(filePath)
GetKey(p) ==
    IF KeySource(p) = 0 THEN NoKey ELSE entries[KeySource(p)].key

\* getMode()
GetMode == mode

\* hasEntries()
HasEntries == \E i \in 1..Len(entries) : ~IsExpired(entries[i])

----------------------------------------------------------------------------
(* Timers: setTimeout / clearTimeout of the host.  A handle is known by the   *)
(* callback it stands for (the filePath its closure captured, the time it is  *)
(* due) and by whether that callback is still to run.  The handles the timers *)
(* map holds are in timers; the callbacks still scheduled whose handle the    *)
(* map no longer holds are in orphans.                                        *)

NoTimer == [st |-> "none", path |-> "", due |-> 0]
\* a handle whose callback has already run: still truthy, clearTimeout ignores it
FiredTimer == [st |-> "fired", path |-> "", due |-> 0]
LiveTimer(p, due) == [st |-> "live", path |-> p, due |-> due]

\* every callback still scheduled in the host, as (filePath, due) pairs
Pending ==
    {[path |-> timers[p].path, due |-> timers[p].due] : p \in {q \in Paths : timers[q].st = "live"}}
        \cup BagToSet(orphans)

\* private clearTimer(filePath): clearTimeout of the handle, then timers.delete
ClearTimer(tm, p) == [tm EXCEPT ![p] = NoTimer]

\* private scheduleExpiry(filePath, delayMs)
ScheduleExpiry(tm, p, delayMs) == [tm EXCEPT ![p] = LiveTimer(p, now + delayMs)]

----------------------------------------------------------------------------
(* SessionManager: operations *)

\* put whose keys-only branch keeps the password in the entry
PutEntryKeepsPassword(p, pw, h, k) ==
    CASE mode = "timed-password" ->
            [path |-> p, password |-> pw, hint |-> h, key |-> k,
             expiry |-> now + timedWindowMs]
      [] OTHER ->
            [path |-> p, password |-> pw, hint |-> h, key |-> k,
             expiry |-> IF mode = "session-password" /\ sessionTimeoutMs > 0
                        THEN now + sessionTimeoutMs ELSE NoExpiry]

\* the entry put stores, by mode; expiry NoExpiry when none is set
PutEntry(p, pw, h, k) ==
    CASE mode = "keys-only" ->
            [path |-> p, password |-> NoPassword, hint |-> h, key |-> k, expiry |-> NoExpiry]
      [] mode = "timed-password" ->
            [path |-> p, password |-> pw, hint |-> h, key |-> k,
             expiry |-> now + timedWindowMs]
      [] OTHER ->
            [path |-> p, password |-> pw, hint |-> h, key |-> k,
             expiry |-> IF sessionTimeoutMs > 0 THEN now + sessionTimeoutMs ELSE NoExpiry]

\* put without the early return of the no-storage branch
PutStoresInNoStorage(k) ==
    CASE mode = "keys-only" -> k # NoKey
      [] OTHER -> TRUE

\* whether put stores an entry at all
PutStores(k) ==
    CASE mode = "no-storage" -> FALSE
      [] mode = "keys-only" -> k # NoKey
      [] OTHER -> TRUE

\* the delay of the timer put schedules, 0 when it schedules none
PutDelay ==
    CASE mode = "timed-password" -> timedWindowMs
      [] mode = "session-password" -> IF sessionTimeoutMs > 0 THEN sessionTimeoutMs ELSE 0
      [] OTHER -> 0

\* put that schedules an expiry in session-password mode whatever the timeout
PutSchedulesAlways == mode = "timed-password" \/ mode = "session-password"

PutSchedules ==
    mode = "timed-password" \/ (mode = "session-password" /\ sessionTimeoutMs > 0)

\* put(filePath, password, hint, key?)
Put(p, pw, h, k) ==
    /\ entries' = IF PutStores(k) THEN MapSet(entries, PutEntry(p, pw, h, k)) ELSE entries
    /\ timers' = IF PutSchedules
                 THEN ScheduleExpiry(ClearTimer(timers, p), p, PutDelay)
                 ELSE ClearTimer(timers, p)
    /\ UNCHANGED <<mode, sessionTimeoutMs, timedWindowMs, now, ticks, orphans>>

\* clearFile without the call of clearTimer
ClearFileKeepsTimer(p) ==
    /\ entries' = MapDelete(entries, p)
    /\ UNCHANGED <<timers, mode, sessionTimeoutMs, timedWindowMs, now, ticks, orphans>>

\* clearFile(filePath)
ClearFile(p) ==
    /\ entries' = MapDelete(entries, p)
    /\ timers' = ClearTimer(timers, p)
    /\ UNCHANGED <<mode, sessionTimeoutMs, timedWindowMs, now, ticks, orphans>>

\* the timers map after clear(): clearTimer(path) for each path that has an entry
ClearedTimers == [p \in Paths |-> IF HasEntry(p) THEN NoTimer ELSE timers[p]]

\* clear()
Clear ==
    /\ entries' = <<>>
    /\ timers' = ClearedTimers
    /\ UNCHANGED <<mode, sessionTimeoutMs, timedWindowMs, now, ticks, orphans>>

\* setMode without the call of clear()
SetModeNoClear(m) ==
    /\ mode' = m
    /\ UNCHANGED <<entries, timers, sessionTimeoutMs, timedWindowMs, now, ticks, orphans>>

\* setMode(mode)
SetMode(m) ==
    /\ entries' = <<>>
    /\ timers' = ClearedTimers
    /\ mode' = m
    /\ UNCHANGED <<sessionTimeoutMs, timedWindowMs, now, ticks, orphans>>

\* setSessionTimeout that also gives every entry that expires the new timeout
SetSessionTimeoutRearms(minutes) ==
    /\ sessionTimeoutMs' = MinutesToMs(minutes)
    /\ entries' = [i \in 1..Len(entries) |->
                      IF entries[i].expiry = NoExpiry THEN entries[i]
                      ELSE [entries[i] EXCEPT !.expiry = now + MinutesToMs(minutes)]]
    /\ UNCHANGED <<timers, mode, timedWindowMs, now, ticks, orphans>>

\* setSessionTimeout(minutes)
SetSessionTimeout(minutes) ==
    /\ sessionTimeoutMs' = MinutesToMs(minutes)
    /\ UNCHANGED <<entries, timers, mode, timedWindowMs, now, ticks, orphans>>

\* setTimedWindow(seconds)
SetTimedWindow(seconds) ==
    /\ timedWindowMs' = SecondsToMs(seconds)
    /\ UNCHANGED <<entries, timers, mode, sessionTimeoutMs, now, ticks, orphans>>

\* handleRename that sets the entry under newPath without entries.delete(oldPath)
RenamedEntriesKeepsOld(oldPath, newPath) ==
    LET e == entries[IndexOf(oldPath)]
    IN  MapSet(entries, [e EXCEPT !.path = newPath])

\* the entries map after handleRename moved the entry of oldPath to newPath
RenamedEntries(oldPath, newPath) ==
    LET e == entries[IndexOf(oldPath)]
    IN  MapSet(MapDelete(entries, oldPath), [e EXCEPT !.path = newPath])

\* the timers map after handleRename: a handle under oldPath moves to newPath
RenamedTimers(oldPath, newPath) ==
    IF timers[oldPath].st # "none"
    THEN [timers EXCEPT ![oldPath] = NoTimer, ![newPath] = timers[oldPath]]
    ELSE timers

\* the callbacks handleRename leaves scheduled without a handle in the map:
\* timers.set(newPath, timer) drops the handle newPath had, without clearTimeout
RenamedOrphans(oldPath, newPath) ==
    IF timers[oldPath].st # "none" /\ timers[newPath].st = "live"
    THEN orphans (+) SetToBag({[path |-> timers[newPath].path, due |-> timers[newPath].due]})
    ELSE orphans

\* handleRename(oldPath, newPath)
HandleRename(oldPath, newPath) ==
    /\ oldPath # newPath
    /\ IF HasEntry(oldPath)
       THEN /\ entries' = RenamedEntries(oldPath, newPath)
            /\ timers' = RenamedTimers(oldPath, newPath)
            /\ orphans' = RenamedOrphans(oldPath, newPath)
            /\ BagCardinality(orphans') <= MaxOrphans
       ELSE UNCHANGED <<entries, timers, orphans>>
    /\ UNCHANGED <<mode, sessionTimeoutMs, timedWindowMs, now, ticks>>

\* the callback of scheduleExpiry runs, its handle held by the timers map under
\* path s: this.clearFile(filePath), filePath being the path put was called with
TimerFire(s) ==
    /\ timers[s].st = "live"
    /\ now >= timers[s].due
    /\ entries' = MapDelete(entries, timers[s].path)
    /\ timers' = ClearTimer([timers EXCEPT ![s] = FiredTimer], timers[s].path)
    /\ UNCHANGED <<mode, sessionTimeoutMs, timedWindowMs, now, ticks, orphans>>

\* the same callback runs, its handle no longer held by the timers map
OrphanFire(o) ==
    /\ BagIn(o, orphans)
    /\ now >= o.due
    /\ entries' = MapDelete(entries, o.path)
    /\ timers' = ClearTimer(timers, o.path)
    /\ orphans' = orphans (-) SetToBag({o})
    /\ UNCHANGED <<mode, sessionTimeoutMs, timedWindowMs, now, ticks>>

\* time passes
Advance(d) ==
    /\ ticks < MaxTicks
    /\ now' = now + d
    /\ ticks' = ticks + 1
    /\ UNCHANGED <<entries, timers, mode, sessionTimeoutMs, timedWindowMs, orphans>>

----------------------------------------------------------------------------
(* The container codec: operations *)

\* encode(plaintext, password, hint), then the document is stored
EncodeCall(plaintext, password, hint) ==
    /\ Len(encLog) < MaxEncodes
    /\ \E encrypted \in
            {EncryptText(plaintext, password, DEFAULT_ENCRYPTION_PARAMS, rngDraws)} :
        /\ container' = FileData(hint, encrypted)
        /\ origin' = [plaintext |-> plaintext, password |-> password, hint |-> hint,
                      made |-> TRUE]
        /\ tampered' = "none"
        /\ result' = NoResult
        /\ encLog' = Append(encLog, Logged(encrypted, plaintext, password))
        /\ rngDraws' = rngDraws + 2
        /\ UNCHANGED <<smVars, viewVars, histVars, appVars>>

\* a document whose data encryptText(plaintext, password, params) made under
\* parameters of the writer's choice is stored
EncryptCall(plaintext, password, hint, params) ==
    /\ Len(encLog) < MaxEncodes
    /\ \E encrypted \in {EncryptText(plaintext, password, params, rngDraws)} :
        /\ container' = FileData(hint, encrypted)
        /\ origin' = [plaintext |-> plaintext, password |-> password, hint |-> hint,
                      made |-> TRUE]
        /\ tampered' = "none"
        /\ result' = NoResult
        /\ encLog' = Append(encLog, Logged(encrypted, plaintext, password))
        /\ rngDraws' = rngDraws + 2
        /\ UNCHANGED <<smVars, viewVars, histVars, appVars>>

\* the encryption member of the stored document is replaced by other parameters
DeclareParams(params) ==
    /\ container # NoContainer
    /\ tampered = "none"
    /\ params # container.encryption
    /\ container' = [container EXCEPT !.encryption = params]
    /\ tampered' = "params"
    /\ result' = NoResult
    /\ UNCHANGED <<origin, encLog, rngDraws>>
    /\ UNCHANGED <<smVars, viewVars, histVars, appVars>>

\* the data member of the stored document is cut down to its first n bytes
Truncate(packed, n) ==
    /\ tampered = "none"
    /\ n < Len(packed)
    /\ container' = [container EXCEPT !.data = Uint8ArrayToBase64(SubSeq(packed, 1, n))]
    /\ tampered' = "short"
    /\ result' = NoResult
    /\ UNCHANGED <<origin, encLog, rngDraws>>
    /\ UNCHANGED <<smVars, viewVars, histVars, appVars>>

\* a text of any kind is stored
StoreRaw(raw) ==
    /\ container' = raw
    /\ origin' = NoOrigin
    /\ tampered' = "none"
    /\ result' = NoResult
    /\ UNCHANGED <<encLog, rngDraws>>
    /\ UNCHANGED <<smVars, viewVars, histVars, appVars>>

\* parse(the stored text)
ParseCall ==
    /\ container # NoContainer
    /\ result' = [kind |-> "parse", value |-> <<>>, password |-> <<>>,
                  outcome |-> Parse(container)]
    /\ UNCHANGED <<container, origin, tampered, encLog, rngDraws>>
    /\ UNCHANGED <<smVars, viewVars, histVars, appVars>>

\* isEncryptedFile(the stored text)
IsEncryptedFileCall ==
    /\ container # NoContainer
    /\ result' = [kind |-> "isEncryptedFile", value |-> <<>>, password |-> <<>>,
                  outcome |-> IsEncryptedFile(container)]
    /\ UNCHANGED <<container, origin, tampered, encLog, rngDraws>>
    /\ UNCHANGED <<smVars, viewVars, histVars, appVars>>

\* isPendingFile(the stored text)
IsPendingFileCall ==
    /\ container # NoContainer
    /\ result' = [kind |-> "isPendingFile", value |-> <<>>, password |-> <<>>,
                  outcome |-> IsPendingFile(container)]
    /\ UNCHANGED <<container, origin, tampered, encLog, rngDraws>>
    /\ UNCHANGED <<smVars, viewVars, histVars, appVars>>

\* a new note is created: the text createPendingFile() returns is stored
CreatePendingCall ==
    /\ container # CreatePendingFile
    /\ container' = CreatePendingFile
    /\ origin' = NoOrigin
    /\ tampered' = "none"
    /\ result' = NoResult
    /\ UNCHANGED <<encLog, rngDraws>>
    /\ UNCHANGED <<smVars, viewVars, histVars, appVars>>

\* the stored document gets another format tag and version number
Reversion(format, version) ==
    /\ container # NoContainer
    /\ tampered \in {"none", "version"}
    /\ <<format, version>> # <<container.format, container.version>>
    /\ container' = [container EXCEPT !.format = format, !.version = version]
    /\ tampered' = "version"
    /\ result' = NoResult
    /\ UNCHANGED <<origin, encLog, rngDraws>>
    /\ UNCHANGED <<smVars, viewVars, histVars, appVars>>

\* needsMigration(parse(the stored document))
NeedsMigrationCall ==
    /\ container # NoContainer
    /\ Parse(container).ok
    /\ result' = [kind |-> "needsMigration", value |-> <<>>, password |-> <<>>,
                  outcome |-> NeedsMigration(Parse(container).fileData)]
    /\ UNCHANGED <<container, origin, tampered, encLog, rngDraws>>
    /\ UNCHANGED <<smVars, viewVars, histVars, appVars>>

\* decode(the stored document, password)
DecodeCall(password) ==
    /\ container # NoContainer
    /\ \E outcome \in {Decode(container, password)} :
            result' = [kind |-> outcome.kind, value |-> outcome.value,
                       password |-> password]
    /\ UNCHANGED <<container, origin, tampered, encLog, rngDraws>>
    /\ UNCHANGED <<smVars, viewVars, histVars, appVars>>

\* c with bit b changed
FlipBit(c, b) == IF (c \div (2 ^ b)) % 2 = 1 THEN c - 2 ^ b ELSE c + 2 ^ b

\* a character that can stand unescaped inside a JSON string
IsJsonStringChar(c) == c >= 32 /\ c # 34 /\ c # 92

\* one bit of byte i of the packed [iv][salt][ciphertext] changes, and the data
\* member is the base64 text of the changed bytes
TamperBytes(packed, i, b) ==
    /\ container # NoContainer
    /\ tampered = "none"
    /\ container' = [container EXCEPT
                        !.data = Btoa([packed EXCEPT ![i] = FlipBit(packed[i], b)])]
    /\ tampered' = "bytes"
    /\ result' = NoResult
    /\ UNCHANGED <<origin, encLog, rngDraws>>
    /\ UNCHANGED <<smVars, viewVars, histVars, appVars>>

\* one bit of character i of the stored data member changes, the document
\* remaining a JSON document with a data member of the same length
TamperText(i, b) ==
    /\ container # NoContainer
    /\ tampered = "none"
    /\ i \in 1..Len(container.data)
    /\ IsJsonStringChar(FlipBit(container.data[i], b))
    /\ container' = [container EXCEPT !.data[i] = FlipBit(container.data[i], b)]
    /\ tampered' = "text"
    /\ result' = NoResult
    /\ UNCHANGED <<origin, encLog, rngDraws>>
    /\ UNCHANGED <<smVars, viewVars, histVars, appVars>>

----------------------------------------------------------------------------
(* EncryptedMarkdownView: one view over the file ViewPath of the vault.  The *)
(* vault's content of that file is container.  A string the view handles is  *)
(* represented by what JSON.parse makes of it: the object it denotes, or,    *)
(* for a text JSON.parse throws on, Text(units) with its code units.  The    *)
(* handlers are async: each action runs one of them from a suspension point  *)
(* (an await) to the next.                                                   *)

ViewPath == "A.txt"

\* this.file == null, this.fileData === null
NoFile == "<null>"
NoFileData == [format |-> "<null>"]

\* what the user types into the editor: "ab", ""
EditTexts == {Text(<<97, 98>>), Text(<<>>)}

\* the ids of the calls of save()
SaveIds == 1..MaxSaves

\* the code units String.prototype.trim removes
IsTrimmed(c) ==
    \/ c \in {9, 10, 11, 12, 13, 32, 160, 5760, 8232, 8233, 8239, 8287, 12288, 65279}
    \/ (c >= 8192 /\ c <= 8202)

\* !rawContent || !rawContent.trim()
IsBlank(raw) ==
    raw.format = "<text>" /\ \A i \in 1..Len(raw.text) : IsTrimmed(raw.text[i])

\* getViewData()
GetViewData == IF isSavingInProgress THEN encryptedJsonForSave ELSE editorData

\* this.currentPassword ?? this.plugin.sessionManager.getPassword(this.file.path)
SavePassword == IF currentPassword # NoPassword THEN currentPassword ELSE GetPassword(file)

\* this.fileData?.hint ?? ""
SaveHint == IF fileData = NoFileData THEN <<>> ELSE fileData.hint

IdleSave == [pc |-> "idle", json |-> NoFileData, data |-> NoFileData, target |-> NoFile]
DoneSave == [IdleSave EXCEPT !.pc = "done"]
IdleLoad ==
    [pc |-> "idle", raw |-> NoFileData, password |-> NoPassword, key |-> NoKey,
     plaintext |-> <<>>]
\* save: the call of save() changePassword awaits; notice: whether it has shown
\* "Password changed successfully."
IdleChange == [pc |-> "idle", save |-> 0, password |-> NoPassword, notice |-> FALSE]

\* outcome: how the last call ended: none / invalid / wrong / failed / unlocked
IdleUnlock ==
    [pc |-> "idle", password |-> NoPassword, raw |-> NoFileData, key |-> NoKey,
     plaintext |-> <<>>, outcome |-> "none"]

\* outcome: how the last call ended: none / failed / encrypted
IdleEncrypt ==
    [pc |-> "idle", password |-> NoPassword, hint |-> <<>>, plaintext |-> <<>>,
     json |-> NoFileData, outcome |-> "none"]

IdleState == [pc |-> "idle", save |-> 0]

\* outcome: how the last call ended: none / closed / threw
IdleLock == [pc |-> "idle", save |-> 0, outcome |-> "none"]

\* save(clear), from its call to its return or to await encode(...)
SaveCall(s) ==
    /\ saveCalls[s].pc = "idle"
    /\ \A t \in 1..(s - 1) : saveCalls[t].pc # "idle"
    /\ IF \/ isSavingInProgress
          \/ file = NoFile
          \/ ~isSavingEnabled
          \/ SavePassword = NoPassword
          \/ SavePassword = <<>>
          \/ IsEncryptedFile(editorData)
          \/ editorData = cachedPlaintext
       THEN \* an early return; the finally clause leaves the flag as it was
            /\ saveCalls' = [saveCalls EXCEPT ![s] = DoneSave]
            /\ UNCHANGED <<isSavingInProgress, cachedPlaintext, encLog, rngDraws>>
       ELSE \E encrypted \in {EncryptText(editorData.text, SavePassword,
                                          DEFAULT_ENCRYPTION_PARAMS, rngDraws)} :
            /\ isSavingInProgress' = TRUE
            /\ cachedPlaintext' = editorData
            /\ encLog' = Append(encLog, Logged(encrypted, editorData.text, SavePassword))
            /\ rngDraws' = rngDraws + 2
            /\ saveCalls' = [saveCalls EXCEPT ![s] =
                                [IdleSave EXCEPT !.pc = "encode",
                                                 !.json = FileData(SaveHint, encrypted)]]
    /\ UNCHANGED <<file, fileData, currentPassword, encryptedJsonForSave, isSavingEnabled,
                   isLoadingFile, editorData, loadCall, unloadCall, changeCall>>
    /\ UNCHANGED <<container, origin, tampered, result>>
    /\ UNCHANGED <<smVars, histVars, appVars>>

\* save(clear), from the return of encode to await super.save(clear): the host
\* takes getViewData() and the file to write it to
SaveEncoded(s) ==
    /\ saveCalls[s].pc = "encode"
    /\ encryptedJsonForSave' = saveCalls[s].json
    /\ fileData' = Parse(saveCalls[s].json).fileData
    /\ UNCHANGED <<file, currentPassword, cachedPlaintext, isSavingEnabled, isLoadingFile,
                   isSavingInProgress, editorData, loadCall, unloadCall, changeCall>>
    /\ saveCalls' = [saveCalls EXCEPT ![s] =
                        [pc |-> "superSave", json |-> saveCalls[s].json,
                         data |-> GetViewData', target |-> file]]
    /\ UNCHANGED codecVars
    /\ UNCHANGED <<smVars, histVars, appVars>>

\* save(clear), from the return of super.save to its end: the host has written
\* what it took, the finally clause resets the flag; a handler that awaits this
\* call goes on: changePassword to its end, showing its notice; setState to
\* await super.setState(...); lockAndClose to its end, where reading
\* this.file.path throws with this.file dropped meanwhile
SaveWritten(s) ==
    /\ saveCalls[s].pc = "superSave"
    /\ container' = IF saveCalls[s].target = NoFile THEN container ELSE saveCalls[s].data
    /\ isSavingInProgress' = FALSE
    /\ saveCalls' = [saveCalls EXCEPT ![s] = DoneSave]
    /\ changeCall' = IF changeCall.pc = "save" /\ changeCall.save = s
                     THEN [changeCall EXCEPT !.pc = "idle", !.save = 0, !.notice = TRUE]
                     ELSE changeCall
    /\ stateCall' = IF stateCall.pc = "save" /\ stateCall.save = s
                    THEN [pc |-> "super", save |-> 0]
                    ELSE stateCall
    /\ IF lockCall.pc = "save" /\ lockCall.save = s /\ file # NoFile
       THEN /\ ClearFile(file)
            /\ currentPassword' = NoPassword
            /\ isSavingEnabled' = FALSE
            /\ lockCall' = [IdleLock EXCEPT !.outcome = "closed"]
       ELSE /\ lockCall' = IF lockCall.pc = "save" /\ lockCall.save = s
                           THEN [IdleLock EXCEPT !.outcome = "threw"]
                           ELSE lockCall
            /\ isSavingEnabled' = IF stateCall.pc = "save" /\ stateCall.save = s
                                  THEN FALSE ELSE isSavingEnabled
            /\ UNCHANGED currentPassword
            /\ UNCHANGED smVars
    /\ UNCHANGED <<file, fileData, cachedPlaintext, encryptedJsonForSave, isLoadingFile,
                   editorData, loadCall, unloadCall>>
    /\ UNCHANGED <<origin, tampered, result, encLog, rngDraws>>
    /\ UNCHANGED <<overlay, unlockCall, encryptCall, convVars>>
    /\ UNCHANGED histVars

\* the user types into the editor of the unlocked note
UserEdit(t) ==
    /\ file # NoFile
    /\ isSavingEnabled
    /\ editorData # t
    /\ editorData' = t
    /\ UNCHANGED <<file, fileData, currentPassword, cachedPlaintext, encryptedJsonForSave,
                   isSavingEnabled, isLoadingFile, isSavingInProgress, saveCalls, loadCall,
                   unloadCall, changeCall>>
    /\ UNCHANGED codecVars
    /\ UNCHANGED <<smVars, histVars, appVars>>

\* the passwords and hints entered into the modal of changePassword: "p2", "n"
NewPasswords == {<<112, 50>>}
NewHints == {<<110>>}

\* changePassword(), from its call to await PasswordModal.prompt(...)
ChangeCall ==
    /\ changeCall.pc = "idle"
    /\ file # NoFile
    /\ isSavingEnabled
    /\ changeCall' = [IdleChange EXCEPT !.pc = "prompt"]
    /\ UNCHANGED <<file, fileData, currentPassword, cachedPlaintext, encryptedJsonForSave,
                   isSavingEnabled, isLoadingFile, isSavingInProgress, editorData,
                   saveCalls, loadCall, unloadCall>>
    /\ UNCHANGED codecVars
    /\ UNCHANGED <<smVars, histVars, appVars>>

\* changePassword(), the modal cancelled: if (!result) return
ChangeCancelled ==
    /\ changeCall.pc = "prompt"
    /\ changeCall' = IdleChange
    /\ UNCHANGED <<file, fileData, currentPassword, cachedPlaintext, encryptedJsonForSave,
                   isSavingEnabled, isLoadingFile, isSavingInProgress, editorData,
                   saveCalls, loadCall, unloadCall>>
    /\ UNCHANGED codecVars
    /\ UNCHANGED <<smVars, histVars, appVars>>

\* this.fileData.hint = result.hint, where there is a fileData
ChangedFileData(hint) ==
    IF fileData = NoFileData THEN fileData ELSE [fileData EXCEPT !.hint = hint]

\* whether the save() changePassword calls returns before it encodes: the
\* guards of save() as they stand once changePassword has set currentPassword
\* to a password that is not empty and cachedPlaintext to ""
ChangeSaveReturns ==
    \/ isSavingInProgress
    \/ ~isSavingEnabled
    \/ IsEncryptedFile(editorData)
    \/ editorData = Text(<<>>)

\* changePassword(), from the modal's result to its end or, in the save() it
\* calls, to await encode(...); with this.file dropped meanwhile, reading
\* this.file.path throws
ChangeResumed(password, hint) ==
    /\ changeCall.pc = "prompt"
    /\ currentPassword' = password
    /\ fileData' = ChangedFileData(hint)
    /\ IF file = NoFile
       THEN /\ changeCall' = IdleChange
            /\ UNCHANGED <<cachedPlaintext, isSavingInProgress, saveCalls, encLog, rngDraws>>
            /\ UNCHANGED smVars
       ELSE /\ Put(file, password, hint, NoKey)
            /\ IF ChangeSaveReturns
               THEN /\ cachedPlaintext' = Text(<<>>)
                    /\ changeCall' = [IdleChange EXCEPT !.password = password,
                                                        !.notice = TRUE]
                    /\ UNCHANGED <<isSavingInProgress, saveCalls, encLog, rngDraws>>
               ELSE \E s \in SaveIds :
                    \E encrypted \in {EncryptText(editorData.text, password,
                                                  DEFAULT_ENCRYPTION_PARAMS, rngDraws)} :
                    /\ saveCalls[s].pc = "idle"
                    /\ \A t \in 1..(s - 1) : saveCalls[t].pc # "idle"
                    /\ isSavingInProgress' = TRUE
                    /\ cachedPlaintext' = editorData
                    /\ encLog' = Append(encLog, Logged(encrypted, editorData.text, password))
                    /\ rngDraws' = rngDraws + 2
                    /\ saveCalls' = [saveCalls EXCEPT ![s] =
                                        [IdleSave EXCEPT
                                            !.pc = "encode",
                                            !.json = FileData(IF fileData = NoFileData
                                                              THEN <<>> ELSE hint,
                                                              encrypted)]]
                    /\ changeCall' = [pc |-> "save", save |-> s, password |-> password,
                                      notice |-> FALSE]
    /\ UNCHANGED <<file, encryptedJsonForSave, isSavingEnabled, isLoadingFile, editorData,
                   loadCall, unloadCall>>
    /\ UNCHANGED <<container, origin, tampered, result>>
    /\ UNCHANGED <<histVars, appVars>>

\* onUnloadFile(file), from its call to await super.onUnloadFile(file)
UnloadCall ==
    /\ file # NoFile
    /\ unloadCall = "idle"
    /\ loadCall.pc = "idle"
    /\ isSavingInProgress' = FALSE
    /\ IF GetMode = "no-storage" THEN ClearFile(file) ELSE UNCHANGED smVars
    /\ UNCHANGED <<histVars, appVars>>
    /\ unloadCall' = "super"
    /\ UNCHANGED <<file, fileData, currentPassword, cachedPlaintext, encryptedJsonForSave,
                   isSavingEnabled, isLoadingFile, editorData, saveCalls, loadCall,
                   changeCall>>
    /\ UNCHANGED codecVars

\* onUnloadFile(file), from the return of super.onUnloadFile to its end; the host
\* then drops this.file
UnloadDone ==
    /\ unloadCall = "super"
    /\ currentPassword' = NoPassword
    /\ fileData' = NoFileData
    /\ isSavingEnabled' = FALSE
    /\ file' = NoFile
    /\ unloadCall' = "idle"
    /\ UNCHANGED <<cachedPlaintext, encryptedJsonForSave, isLoadingFile, isSavingInProgress,
                   editorData, saveCalls, loadCall, changeCall>>
    /\ UNCHANGED codecVars
    /\ UNCHANGED <<smVars, histVars, appVars>>

\* onLoadFile(file), from its call to await this.app.vault.read(file)
LoadCall ==
    /\ file = NoFile
    /\ loadCall.pc = "idle"
    /\ unloadCall = "idle"
    /\ isSavingEnabled' = FALSE
    /\ isSavingInProgress' = FALSE
    /\ currentPassword' = NoPassword
    /\ loadCall' = [IdleLoad EXCEPT !.pc = "read"]
    /\ overlay' = "none"
    /\ UNCHANGED <<file, fileData, cachedPlaintext, encryptedJsonForSave, isLoadingFile,
                   editorData, saveCalls, unloadCall, changeCall>>
    /\ UNCHANGED codecVars
    /\ UNCHANGED <<smVars, histVars, flowVars, convVars>>

\* the cached key onLoadFile tries in keys-only mode, NoKey when it tries none
LoadKey == IF GetMode = "keys-only" THEN GetKey(notePath) ELSE NoKey

\* onLoadFile, from the return of vault.read to its next await: that of
\* decode, of decryptTextWithKey or, in initViewEmpty, of super.onLoadFile
LoadRead ==
    /\ loadCall.pc = "read"
    /\ LET rawContent == container
           password == GetPassword(notePath)
       IN  IF IsBlank(rawContent) \/ IsPendingFile(rawContent) \/ ~Parse(rawContent).ok
           THEN /\ isLoadingFile' = TRUE
                /\ loadCall' = [IdleLoad EXCEPT
                                    !.pc = "empty",
                                    !.raw = IF ~IsBlank(rawContent) /\ IsPendingFile(rawContent)
                                            THEN rawContent ELSE NoFileData]
                /\ UNCHANGED <<fileData, encryptedJsonForSave>>
           ELSE /\ fileData' = Parse(rawContent).fileData
                /\ encryptedJsonForSave' = rawContent
                /\ IF password # NoPassword /\ password # <<>>
                   THEN /\ loadCall' = [IdleLoad EXCEPT !.pc = "decode", !.raw = rawContent,
                                                        !.password = password]
                        /\ UNCHANGED isLoadingFile
                   ELSE IF LoadKey # NoKey
                   THEN /\ loadCall' = [IdleLoad EXCEPT !.pc = "decodeKey",
                                                        !.raw = rawContent, !.key = LoadKey]
                        /\ UNCHANGED isLoadingFile
                   ELSE /\ isLoadingFile' = TRUE
                        /\ loadCall' = [IdleLoad EXCEPT !.pc = "empty"]
    /\ UNCHANGED <<file, currentPassword, cachedPlaintext, isSavingEnabled,
                   isSavingInProgress, editorData, saveCalls, unloadCall, changeCall>>
    /\ UNCHANGED codecVars
    /\ UNCHANGED <<smVars, histVars, appVars>>

\* onLoadFile after a successful decryption, to await super.onLoadFile(file)
LoadDecrypted(password, plaintext) ==
    /\ currentPassword' = password
    /\ cachedPlaintext' = Text(plaintext)
    /\ encryptedJsonForSave' = loadCall.raw
    /\ isLoadingFile' = TRUE
    /\ loadCall' = [loadCall EXCEPT !.pc = "super", !.password = password,
                                    !.plaintext = plaintext]

\* onLoadFile with nothing decrypted, or its catch clause: initViewEmpty(file), to
\* await super.onLoadFile(file)
LoadLocked ==
    /\ isLoadingFile' = TRUE
    /\ loadCall' = [IdleLoad EXCEPT !.pc = "empty"]
    /\ UNCHANGED <<currentPassword, cachedPlaintext, encryptedJsonForSave>>

\* onLoadFile, from the return of decode to its next await
LoadDecoded ==
    /\ loadCall.pc = "decode"
    /\ \E outcome \in {Decode(loadCall.raw, loadCall.password)} :
          CASE outcome.kind = "value" -> LoadDecrypted(loadCall.password, outcome.value)
            [] outcome.kind = "null" /\ LoadKey # NoKey ->
                  /\ loadCall' = [loadCall EXCEPT !.pc = "decodeKey",
                                                  !.password = NoPassword, !.key = LoadKey]
                  /\ UNCHANGED <<currentPassword, cachedPlaintext, encryptedJsonForSave,
                                 isLoadingFile>>
            [] OTHER -> LoadLocked
    /\ UNCHANGED <<file, fileData, isSavingEnabled, isSavingInProgress, editorData,
                   saveCalls, unloadCall, changeCall>>
    /\ UNCHANGED codecVars
    /\ UNCHANGED <<smVars, histVars, appVars>>

\* onLoadFile, from the return of decryptTextWithKey to its next await
LoadKeyDecoded ==
    /\ loadCall.pc = "decodeKey"
    /\ \E outcome \in {DecryptTextWithKey(loadCall.raw.data, loadCall.key,
                                          loadCall.raw.encryption)} :
          IF outcome.kind = "value"
          THEN LoadDecrypted(NoPassword, outcome.value)
          ELSE LoadLocked
    /\ UNCHANGED <<file, fileData, isSavingEnabled, isSavingInProgress, editorData,
                   saveCalls, unloadCall, changeCall>>
    /\ UNCHANGED codecVars
    /\ UNCHANGED <<smVars, histVars, appVars>>

\* whether migrateIfNeeded, called with this.file set, goes on to encode
Migrates ==
    /\ fileData # NoFileData
    /\ currentPassword # NoPassword
    /\ currentPassword # <<>>
    /\ NeedsMigration(fileData)

\* this.fileData.hint ?? ""
MigrateHint == fileData.hint

\* onLoadFile, from the return of super.onLoadFile (which has set this.file) to
\* its end or, in migrateIfNeeded, to await encode(...)
LoadSuperDone ==
    /\ loadCall.pc = "super"
    /\ file' = notePath
    /\ isLoadingFile' = FALSE
    /\ editorData' = Text(loadCall.plaintext)
    /\ isSavingEnabled' = TRUE
    /\ IF Migrates
       THEN \E encrypted \in {EncryptText(cachedPlaintext.text, currentPassword,
                                          DEFAULT_ENCRYPTION_PARAMS, rngDraws)} :
            /\ encLog' = Append(encLog, Logged(encrypted, cachedPlaintext.text,
                                               currentPassword))
            /\ rngDraws' = rngDraws + 2
            /\ loadCall' = [IdleLoad EXCEPT !.pc = "migrate",
                                            !.raw = FileData(MigrateHint, encrypted)]
       ELSE /\ loadCall' = IdleLoad
            /\ UNCHANGED <<encLog, rngDraws>>
    /\ UNCHANGED <<fileData, currentPassword, cachedPlaintext, encryptedJsonForSave,
                   isSavingInProgress, saveCalls, unloadCall, changeCall>>
    /\ UNCHANGED <<container, origin, tampered, result>>
    /\ UNCHANGED <<smVars, histVars, appVars>>

\* migrateIfNeeded, from the return of encode to await vault.modify(this.file, newJson)
MigrateEncoded ==
    /\ loadCall.pc = "migrate"
    /\ loadCall' = [loadCall EXCEPT !.pc = "modify"]
    /\ UNCHANGED <<file, fileData, currentPassword, cachedPlaintext, encryptedJsonForSave,
                   isSavingEnabled, isLoadingFile, isSavingInProgress, editorData,
                   saveCalls, unloadCall, changeCall>>
    /\ UNCHANGED codecVars
    /\ UNCHANGED <<smVars, histVars, appVars>>

\* migrateIfNeeded, from the return of vault.modify, which has written newJson,
\* to the end of onLoadFile
MigrateModified ==
    /\ loadCall.pc = "modify"
    /\ container' = loadCall.raw
    /\ encryptedJsonForSave' = loadCall.raw
    /\ fileData' = Parse(loadCall.raw).fileData
    /\ loadCall' = IdleLoad
    /\ UNCHANGED <<file, currentPassword, cachedPlaintext, isSavingEnabled, isLoadingFile,
                   isSavingInProgress, editorData, saveCalls, unloadCall, changeCall>>
    /\ UNCHANGED <<origin, tampered, result, encLog, rngDraws>>
    /\ UNCHANGED <<smVars, histVars, appVars>>

\* migrateIfNeeded, encode rejecting: the catch clause logs the error, and
\* migrateIfNeeded and with it onLoadFile return
MigrateEncodeFails ==
    /\ loadCall.pc = "migrate"
    /\ loadCall' = IdleLoad
    /\ migrateFailures < MaxFailures
    /\ migrateFailures' = migrateFailures + 1
    /\ UNCHANGED <<file, fileData, currentPassword, cachedPlaintext, encryptedJsonForSave,
                   isSavingEnabled, isLoadingFile, isSavingInProgress, editorData,
                   saveCalls, unloadCall, changeCall>>
    /\ UNCHANGED codecVars
    /\ UNCHANGED <<smVars, putUntil, appVars>>

\* migrateIfNeeded whose catch clause throws the error on, into the catch clause
\* of onLoadFile: initViewEmpty(file), the view shows its locked state
MigrateFailurePropagates ==
    /\ loadCall.pc = "modify"
    /\ migrateFailures < MaxFailures
    /\ migrateFailures' = migrateFailures + 1
    /\ isLoadingFile' = TRUE
    /\ loadCall' = [IdleLoad EXCEPT !.pc = "empty"]
    /\ UNCHANGED <<file, fileData, currentPassword, cachedPlaintext, encryptedJsonForSave,
                   isSavingEnabled, isSavingInProgress, editorData, saveCalls, unloadCall, changeCall>>
    /\ UNCHANGED codecVars
    /\ UNCHANGED <<smVars, putUntil, appVars>>

\* migrateIfNeeded, vault.modify rejecting with nothing written: the catch
\* clause logs the error, and migrateIfNeeded and with it onLoadFile return
MigrateModifyFails ==
    /\ loadCall.pc = "modify"
    /\ loadCall' = IdleLoad
    /\ migrateFailures < MaxFailures
    /\ migrateFailures' = migrateFailures + 1
    /\ UNCHANGED <<file, fileData, currentPassword, cachedPlaintext, encryptedJsonForSave,
                   isSavingEnabled, isLoadingFile, isSavingInProgress, editorData,
                   saveCalls, unloadCall, changeCall>>
    /\ UNCHANGED codecVars
    /\ UNCHANGED <<smVars, putUntil, appVars>>

\* the card onLoadFile shows once initViewEmpty is done: showEncryptState() for
\* a pending file, else showLockedState(message), which builds the unlock form
\* only where this.fileData is set
ShownCard ==
    IF loadCall.raw # NoFileData THEN "encrypt"
    ELSE IF fileData = NoFileData THEN "message"
    ELSE "unlock"

\* onLoadFile ending in the locked state with saving enabled
LoadEmptyEnablesSaving ==
    /\ loadCall.pc = "empty"
    /\ file' = notePath
    /\ isLoadingFile' = FALSE
    /\ editorData' = Text(<<>>)
    /\ overlay' = ShownCard
    /\ loadCall' = IdleLoad
    /\ isSavingEnabled' = TRUE
    /\ UNCHANGED <<fileData, currentPassword, cachedPlaintext, encryptedJsonForSave,
                   isSavingInProgress, saveCalls, unloadCall, changeCall>>
    /\ UNCHANGED codecVars
    /\ UNCHANGED <<smVars, histVars, flowVars, convVars>>

\* initViewEmpty(file), from the return of super.onLoadFile to the end of
\* onLoadFile: the view shows its locked state
LoadEmptyDone ==
    /\ loadCall.pc = "empty"
    /\ file' = notePath
    /\ isLoadingFile' = FALSE
    /\ editorData' = Text(<<>>)
    /\ overlay' = ShownCard
    /\ loadCall' = IdleLoad
    /\ UNCHANGED <<fileData, currentPassword, cachedPlaintext, encryptedJsonForSave,
                   isSavingEnabled, isSavingInProgress, saveCalls, unloadCall, changeCall>>
    /\ UNCHANGED codecVars
    /\ UNCHANGED <<smVars, histVars, flowVars, convVars>>

----------------------------------------------------------------------------
(* The inline cards of the view: doUnlock, the submit handler of the unlock  *)
(* form showLockedState builds, and doEncrypt, that of the set-password card *)
(* showEncryptState builds; setState and lockAndClose.  A card is taken to   *)
(* be gone when onLoadFile runs again.                                       *)


\* deriveKeyFromData(base64Data, password, params, extractable)
DeriveKeyFromData(base64Data, password, params) ==
    LET packed == Base64ToUint8Array(base64Data)
        ivLen == params.ivLength
        saltLen == params.keyDerivation.saltLength
        bytes == packed.bytes
        salt == SubSeq(bytes, ivLen + 1, ivLen + saltLen)
    IN  IF ~packed.ok THEN [kind |-> "throw", key |-> NoKey]
        ELSE IF Len(bytes) < ivLen + saltLen + 1 THEN [kind |-> "null", key |-> NoKey]
        ELSE [kind |-> "value", key |-> DeriveKey(password, salt, params)]

\* doUnlock(), from the click to await this.app.vault.read(this.file); the
\* password entered is not empty
DoUnlock(enteredPassword) ==
    /\ overlay = "unlock"
    /\ unlockCall.pc = "idle"
    /\ file # NoFile
    /\ enteredPassword # <<>>
    /\ unlockCall' = [IdleUnlock EXCEPT !.pc = "read", !.password = enteredPassword]
    /\ UNCHANGED <<overlay, encryptCall, stateCall, lockCall, convVars>>
    /\ UNCHANGED <<smVars, codecVars, viewVars, histVars>>

\* doUnlock(), from the return of vault.read to await decode(raw, enteredPassword),
\* or to its return where parse(raw) throws
UnlockRead ==
    /\ unlockCall.pc = "read"
    /\ IF Parse(container).ok
       THEN /\ fileData' = Parse(container).fileData
            /\ unlockCall' = [unlockCall EXCEPT !.pc = "decode", !.raw = container]
       ELSE /\ unlockCall' = [IdleUnlock EXCEPT !.outcome = "invalid"]
            /\ UNCHANGED fileData
    /\ UNCHANGED <<file, currentPassword, cachedPlaintext, encryptedJsonForSave,
                   isSavingEnabled, isLoadingFile, isSavingInProgress, editorData,
                   saveCalls, loadCall, unloadCall, changeCall>>
    /\ UNCHANGED <<overlay, encryptCall, stateCall, lockCall, convVars>>
    /\ UNCHANGED <<smVars, codecVars, histVars>>

\* doUnlock() once the password is cached: the view takes the plaintext, and
\* migrateIfNeeded() runs to its end or to await encode(...)
UnlockOpens(opened) ==
    /\ currentPassword' = opened.password
    /\ cachedPlaintext' = Text(opened.plaintext)
    /\ encryptedJsonForSave' = opened.raw
    /\ overlay' = "none"
    /\ editorData' = Text(opened.plaintext)
    /\ isSavingEnabled' = TRUE
    /\ IF file # NoFile /\ fileData # NoFileData /\ NeedsMigration(fileData)
       THEN \E encrypted \in {EncryptText(opened.plaintext, opened.password,
                                          DEFAULT_ENCRYPTION_PARAMS, rngDraws)} :
            /\ encLog' = Append(encLog, Logged(encrypted, opened.plaintext,
                                               opened.password))
            /\ rngDraws' = rngDraws + 2
            /\ unlockCall' = [opened EXCEPT !.pc = "migrate",
                                            !.raw = FileData(fileData.hint, encrypted)]
       ELSE /\ unlockCall' = [IdleUnlock EXCEPT !.outcome = "unlocked"]
            /\ UNCHANGED <<encLog, rngDraws>>

\* doUnlock caching the password entered before it returns
UnlockEndsCaching(outcome) ==
    /\ unlockCall' = [IdleUnlock EXCEPT !.outcome = outcome]
    /\ UNCHANGED <<currentPassword, cachedPlaintext, encryptedJsonForSave, overlay,
                   editorData, isSavingEnabled, encLog, rngDraws>>
    /\ IF file # NoFile
       THEN Put(file, unlockCall.password, <<>>, NoKey)
       ELSE UNCHANGED smVars

\* doUnlock() ending at a return that leaves the form as it is, or in its catch
\* clause ("Failed to decrypt")
UnlockEnds(outcome) ==
    /\ unlockCall' = [IdleUnlock EXCEPT !.outcome = outcome]
    /\ UNCHANGED <<currentPassword, cachedPlaintext, encryptedJsonForSave, overlay,
                   editorData, isSavingEnabled, encLog, rngDraws>>
    /\ UNCHANGED smVars

\* fileData.hint ?? "", fileData being what doUnlock parsed
UnlockHint == Parse(unlockCall.raw).fileData.hint

\* doUnlock(), from the return of decode to its end or its next await: that of
\* deriveKeyFromData in keys-only mode, else that of encode in migrateIfNeeded;
\* with this.file dropped meanwhile, reading this.file.path throws
UnlockDecoded ==
    /\ unlockCall.pc = "decode"
    /\ \E outcome \in {Decode(unlockCall.raw, unlockCall.password)} :
          CASE outcome.kind = "null" -> UnlockEnds("wrong")
            [] outcome.kind = "throw" -> UnlockEnds("failed")
            [] outcome.kind = "value" /\ GetMode = "keys-only" ->
                  /\ unlockCall' = [unlockCall EXCEPT !.pc = "deriveKey",
                                                      !.plaintext = outcome.value]
                  /\ UNCHANGED <<currentPassword, cachedPlaintext, encryptedJsonForSave,
                                 overlay, editorData, isSavingEnabled, encLog, rngDraws>>
                  /\ UNCHANGED smVars
            [] outcome.kind = "value" /\ GetMode # "keys-only" /\ file = NoFile ->
                  UnlockEnds("failed")
            [] OTHER ->
                  /\ Put(file, unlockCall.password, UnlockHint, NoKey)
                  /\ UnlockOpens([unlockCall EXCEPT !.plaintext = outcome.value])
    /\ UNCHANGED <<file, fileData, isLoadingFile, isSavingInProgress, saveCalls, loadCall,
                   unloadCall, changeCall>>
    /\ UNCHANGED <<container, origin, tampered, result>>
    /\ UNCHANGED <<encryptCall, stateCall, lockCall, convVars>>
    /\ UNCHANGED histVars

\* doUnlock() in keys-only mode, from the return of deriveKeyFromData to its end
\* or to await encode(...) in migrateIfNeeded
UnlockKeyDerived ==
    /\ unlockCall.pc = "deriveKey"
    /\ \E derived \in {DeriveKeyFromData(unlockCall.raw.data, unlockCall.password,
                                         unlockCall.raw.encryption)} :
          CASE derived.kind = "throw" -> UnlockEnds("failed")
            [] derived.kind = "value" /\ file = NoFile -> UnlockEnds("failed")
            [] derived.kind = "value" /\ file # NoFile ->
                  /\ Put(file, unlockCall.password, UnlockHint, derived.key)
                  /\ UnlockOpens(unlockCall)
            [] OTHER -> UnlockOpens(unlockCall) /\ UNCHANGED smVars
    /\ UNCHANGED <<file, fileData, isLoadingFile, isSavingInProgress, saveCalls, loadCall,
                   unloadCall, changeCall>>
    /\ UNCHANGED <<container, origin, tampered, result>>
    /\ UNCHANGED <<encryptCall, stateCall, lockCall, convVars>>
    /\ UNCHANGED histVars

\* migrateIfNeeded as called by doUnlock, from the return of encode to await
\* vault.modify(this.file, newJson)
UnlockMigrateEncoded ==
    /\ unlockCall.pc = "migrate"
    /\ unlockCall' = [unlockCall EXCEPT !.pc = "modify"]
    /\ UNCHANGED <<overlay, encryptCall, stateCall, lockCall, convVars>>
    /\ UNCHANGED <<smVars, codecVars, viewVars, histVars>>

\* migrateIfNeeded as called by doUnlock, from the return of vault.modify, which
\* has written newJson, to the end of doUnlock
UnlockMigrateModified ==
    /\ unlockCall.pc = "modify"
    /\ container' = unlockCall.raw
    /\ encryptedJsonForSave' = unlockCall.raw
    /\ fileData' = Parse(unlockCall.raw).fileData
    /\ unlockCall' = [IdleUnlock EXCEPT !.outcome = "unlocked"]
    /\ UNCHANGED <<file, currentPassword, cachedPlaintext, isSavingEnabled, isLoadingFile,
                   isSavingInProgress, editorData, saveCalls, loadCall, unloadCall,
                   changeCall>>
    /\ UNCHANGED <<origin, tampered, result, encLog, rngDraws>>
    /\ UNCHANGED <<overlay, encryptCall, stateCall, lockCall, convVars>>
    /\ UNCHANGED <<smVars, histVars>>

\* Map.get on a path the map has no entry for
NoPlaintext == <<-1>>

\* the passwords and the hint entered into the set-password card: "p1"; "h"
CardPasswords == {<<112, 49>>}
CardHints == {<<104>>}


\* this.plugin.pendingPlaintext.get(this.file.path) ?? ""
PendingPlaintextOf(p) ==
    IF pendingPlaintext[p] = NoPlaintext THEN <<>> ELSE pendingPlaintext[p]

\* doEncrypt(), from the click to await encode(pendingPlaintext, enteredPassword,
\* hint); the password entered is not empty and is confirmed
DoEncrypt(enteredPassword, hint) ==
    /\ overlay = "encrypt"
    /\ encryptCall.pc = "idle"
    /\ file # NoFile
    /\ enteredPassword # <<>>
    /\ Len(encLog) < MaxEncodes
    /\ \E encrypted \in {EncryptText(PendingPlaintextOf(file), enteredPassword,
                                     DEFAULT_ENCRYPTION_PARAMS, rngDraws)} :
          /\ encLog' = Append(encLog, Logged(encrypted, PendingPlaintextOf(file),
                                             enteredPassword))
          /\ rngDraws' = rngDraws + 2
          /\ encryptCall' = [pc |-> "encode", password |-> enteredPassword, hint |-> hint,
                             plaintext |-> PendingPlaintextOf(file),
                             json |-> FileData(hint, encrypted), outcome |-> "none"]
    /\ pendingPlaintext' = [pendingPlaintext EXCEPT ![file] = NoPlaintext]
    /\ UNCHANGED <<container, origin, tampered, result>>
    /\ UNCHANGED <<overlay, unlockCall, stateCall, lockCall>>
    /\ UNCHANGED <<notePath, noteExt, isConverting, convCalls, leafOpen>>
    /\ UNCHANGED <<smVars, viewVars, histVars>>

\* doEncrypt(), from the return of encode to await vault.modify(this.file,
\* encryptedJson), or, with this.file dropped meanwhile, to its catch clause
DoEncryptEncoded ==
    /\ encryptCall.pc = "encode"
    /\ encryptCall' = IF file = NoFile
                      THEN [IdleEncrypt EXCEPT !.outcome = "failed"]
                      ELSE [encryptCall EXCEPT !.pc = "modify"]
    /\ UNCHANGED <<overlay, unlockCall, stateCall, lockCall, convVars>>
    /\ UNCHANGED <<smVars, codecVars, viewVars, histVars>>

\* doEncrypt() once the password is cached: the card goes, the editor takes the
\* plaintext, saving is enabled
DoEncryptOpens ==
    /\ overlay' = "none"
    /\ editorData' = Text(encryptCall.plaintext)
    /\ isSavingEnabled' = TRUE
    /\ encryptCall' = [IdleEncrypt EXCEPT !.outcome = "encrypted"]

\* doEncrypt() ending in its catch clause ("Failed to encrypt.")
DoEncryptFails ==
    /\ encryptCall' = [IdleEncrypt EXCEPT !.outcome = "failed"]
    /\ UNCHANGED <<overlay, editorData, isSavingEnabled>>
    /\ UNCHANGED smVars

\* doEncrypt(), from the return of vault.modify, which has written the
\* container, to its end or, in keys-only mode, to await deriveKeyFromData(...)
DoEncryptModified ==
    /\ encryptCall.pc = "modify"
    /\ container' = encryptCall.json
    /\ fileData' = Parse(encryptCall.json).fileData
    /\ currentPassword' = encryptCall.password
    /\ cachedPlaintext' = Text(encryptCall.plaintext)
    /\ encryptedJsonForSave' = encryptCall.json
    /\ IF GetMode = "keys-only"
       THEN /\ encryptCall' = [encryptCall EXCEPT !.pc = "deriveKey"]
            /\ UNCHANGED <<overlay, editorData, isSavingEnabled>>
            /\ UNCHANGED smVars
       ELSE IF file = NoFile
       THEN DoEncryptFails
       ELSE /\ Put(file, encryptCall.password, encryptCall.hint, NoKey)
            /\ DoEncryptOpens
    /\ UNCHANGED <<file, isLoadingFile, isSavingInProgress, saveCalls, loadCall, unloadCall,
                   changeCall>>
    /\ UNCHANGED <<origin, tampered, result, encLog, rngDraws>>
    /\ UNCHANGED <<unlockCall, stateCall, lockCall, convVars>>
    /\ UNCHANGED histVars

\* doEncrypt() in keys-only mode, from the return of deriveKeyFromData to its end
DoEncryptKeyDerived ==
    /\ encryptCall.pc = "deriveKey"
    /\ \E derived \in {DeriveKeyFromData(encryptCall.json.data, encryptCall.password,
                                         encryptCall.json.encryption)} :
          CASE derived.kind = "throw" -> DoEncryptFails
            [] derived.kind = "value" /\ file = NoFile -> DoEncryptFails
            [] derived.kind = "value" /\ file # NoFile ->
                  /\ Put(file, encryptCall.password, encryptCall.hint, derived.key)
                  /\ DoEncryptOpens
            [] OTHER -> DoEncryptOpens /\ UNCHANGED smVars
    /\ UNCHANGED <<file, fileData, currentPassword, cachedPlaintext, encryptedJsonForSave,
                   isLoadingFile, isSavingInProgress, saveCalls, loadCall, unloadCall,
                   changeCall>>
    /\ UNCHANGED codecVars
    /\ UNCHANGED <<unlockCall, stateCall, lockCall, convVars>>
    /\ UNCHANGED histVars

\* whether a call of save() returns before it encodes
SaveReturns ==
    \/ isSavingInProgress
    \/ file = NoFile
    \/ ~isSavingEnabled
    \/ SavePassword = NoPassword
    \/ SavePassword = <<>>
    \/ IsEncryptedFile(editorData)
    \/ editorData = cachedPlaintext

\* save() as called by another handler of the view, to await encode(...)
SaveBegins(s) ==
    /\ saveCalls[s].pc = "idle"
    /\ \A t \in 1..(s - 1) : saveCalls[t].pc # "idle"
    /\ \E encrypted \in {EncryptText(editorData.text, SavePassword,
                                     DEFAULT_ENCRYPTION_PARAMS, rngDraws)} :
          /\ isSavingInProgress' = TRUE
          /\ cachedPlaintext' = editorData
          /\ encLog' = Append(encLog, Logged(encrypted, editorData.text, SavePassword))
          /\ rngDraws' = rngDraws + 2
          /\ saveCalls' = [saveCalls EXCEPT ![s] =
                              [IdleSave EXCEPT !.pc = "encode",
                                               !.json = FileData(SaveHint, encrypted)]]


\* state.mode === "preview"
StateModes == {"preview", "source"}

\* setState(state, result), from its call to await super.setState(state, result)
\* or, in the save() it calls, to await encode(...)
SetStateCall(stateMode) ==
    /\ stateCall.pc = "idle"
    /\ file # NoFile
    /\ IF stateMode = "preview" /\ isSavingEnabled /\ ~SaveReturns
       THEN /\ \E s \in SaveIds : SaveBegins(s) /\ stateCall' = [pc |-> "save", save |-> s]
            /\ UNCHANGED isSavingEnabled
       ELSE /\ isSavingEnabled' = FALSE
            /\ stateCall' = [pc |-> "super", save |-> 0]
            /\ UNCHANGED <<isSavingInProgress, cachedPlaintext, encLog, rngDraws, saveCalls>>
    /\ UNCHANGED <<file, fileData, currentPassword, encryptedJsonForSave, isLoadingFile,
                   editorData, loadCall, unloadCall, changeCall>>
    /\ UNCHANGED <<container, origin, tampered, result>>
    /\ UNCHANGED <<overlay, unlockCall, encryptCall, lockCall, convVars>>
    /\ UNCHANGED <<smVars, histVars>>

\* setState, from the return of super.setState to its end: the editor is given
\* the cached plaintext, the finally clause enables saving where the view
\* holds a password
SetStateDone ==
    /\ stateCall.pc = "super"
    /\ editorData' = IF cachedPlaintext # Text(<<>>) THEN cachedPlaintext ELSE editorData
    /\ isSavingEnabled' = IF currentPassword # NoPassword /\ currentPassword # <<>>
                          THEN TRUE ELSE isSavingEnabled
    /\ stateCall' = IdleState
    /\ UNCHANGED <<file, fileData, currentPassword, cachedPlaintext, encryptedJsonForSave,
                   isLoadingFile, isSavingInProgress, saveCalls, loadCall, unloadCall,
                   changeCall>>
    /\ UNCHANGED codecVars
    /\ UNCHANGED <<overlay, unlockCall, encryptCall, lockCall, convVars>>
    /\ UNCHANGED <<smVars, histVars>>


\* lockAndClose(), from its call to its end or, in the save() it calls, to await
\* encode(...)
LockCall ==
    /\ lockCall.pc = "idle"
    /\ IF isSavingEnabled /\ file # NoFile /\ ~SaveReturns
       THEN /\ \E s \in SaveIds :
                  SaveBegins(s) /\ lockCall' = [IdleLock EXCEPT !.pc = "save", !.save = s]
            /\ UNCHANGED <<currentPassword, isSavingEnabled>>
            /\ UNCHANGED smVars
       ELSE /\ IF isSavingEnabled /\ file # NoFile
               THEN ClearFile(file)
               ELSE UNCHANGED smVars
            /\ currentPassword' = NoPassword
            /\ isSavingEnabled' = FALSE
            /\ lockCall' = [IdleLock EXCEPT !.outcome = "closed"]
            /\ UNCHANGED <<isSavingInProgress, cachedPlaintext, encLog, rngDraws, saveCalls>>
    /\ UNCHANGED <<file, fileData, encryptedJsonForSave, isLoadingFile, editorData,
                   loadCall, unloadCall, changeCall>>
    /\ UNCHANGED <<container, origin, tampered, result>>
    /\ UNCHANGED <<overlay, unlockCall, encryptCall, stateCall, convVars>>
    /\ UNCHANGED histVars

----------------------------------------------------------------------------
(* NoteConverter: toEncrypted and toDecrypted on the note, one TFile whose   *)
(* content is container, whose path is notePath and whose extension is       *)
(* noteExt.  The two names of Paths stand for whole paths, extension         *)
(* included: a conversion or a rename moves the note to the other name.      *)

LOCKED_EXTENSION == "locked"

\* the ids of the calls of toEncrypted / toDecrypted
ConvIds == 1..MaxConversions

\* outcome: how the call ended: none / refused / nopassword / wrong / threw / converted
IdleConv ==
    [pc |-> "idle", kind |-> "none", password |-> NoPassword, text |-> NoFileData,
     write |-> NoFileData, newPath |-> NoFile, leaves |-> FALSE, outcome |-> "none"]

\* a call of the converter that has ended
EndedConv(outcome) == [IdleConv EXCEPT !.pc = "done", !.outcome = outcome]

\* the path the note is moved to: not the path it has
NewPath(p) == CHOOSE q \in Paths : q # p

\* file.path.replace(/\.md$/, ".locked") in toEncrypted, its reverse in
\* toDecrypted: the path itself where it does not end in the extension
ReplacedPath(kind) ==
    IF noteExt = (IF kind = "toEncrypted" THEN "md" ELSE LOCKED_EXTENSION)
    THEN NewPath(notePath)
    ELSE notePath

\* whether a conversion is between its this.isConverting = true and its finally
\* clause
Converting(c) == convCalls[c].pc \notin {"idle", "done"}

\* the next call of the converter
NextConv(c) ==
    /\ convCalls[c].pc = "idle"
    /\ \A d \in 1..(c - 1) : convCalls[d].pc # "idle"

\* toEncrypted(file), from its call to its return or to await vault.read(file)
ToEncryptedCall(c) ==
    /\ NextConv(c)
    /\ IF noteExt # "md"
       THEN /\ convCalls' = [convCalls EXCEPT ![c] = EndedConv("refused")]
            /\ UNCHANGED isConverting
       ELSE /\ convCalls' = [convCalls EXCEPT ![c] =
                                [IdleConv EXCEPT !.pc = "read", !.kind = "toEncrypted",
                                                 !.password = GetPassword(notePath)]]
            /\ isConverting' = TRUE
    /\ UNCHANGED <<notePath, noteExt, pendingPlaintext, leafOpen>>
    /\ UNCHANGED <<overlay, flowVars>>
    /\ UNCHANGED <<smVars, codecVars, viewVars, histVars>>

\* toDecrypted(file), from its call to its return or to await vault.read(file)
ToDecryptedCall(c) ==
    /\ NextConv(c)
    /\ IF noteExt # LOCKED_EXTENSION
       THEN /\ convCalls' = [convCalls EXCEPT ![c] = EndedConv("refused")]
            /\ UNCHANGED isConverting
       ELSE IF GetPassword(notePath) \in {NoPassword, <<>>}
       THEN /\ convCalls' = [convCalls EXCEPT ![c] = EndedConv("nopassword")]
            /\ UNCHANGED isConverting
       ELSE /\ convCalls' = [convCalls EXCEPT ![c] =
                                [IdleConv EXCEPT !.pc = "read", !.kind = "toDecrypted",
                                                 !.password = GetPassword(notePath)]]
            /\ isConverting' = TRUE
    /\ UNCHANGED <<notePath, noteExt, pendingPlaintext, leafOpen>>
    /\ UNCHANGED <<overlay, flowVars>>
    /\ UNCHANGED <<smVars, codecVars, viewVars, histVars>>

\* where a conversion that has its text goes: to await leaf.setViewState(...)
\* for the leaves that show the file, else to what it writes
ConvNavigates(call) ==
    IF leafOpen
    THEN [call EXCEPT !.pc = "navigate", !.leaves = TRUE,
                      !.newPath = ReplacedPath(call.kind)]
    ELSE [call EXCEPT !.pc = "write", !.newPath = ReplacedPath(call.kind)]

\* toEncrypted, from the return of vault.read to its next await; the text it
\* reads is not a JSON document
ToEncryptedRead(c) ==
    /\ convCalls[c].pc = "read"
    /\ convCalls[c].kind = "toEncrypted"
    /\ container.format = "<text>"
    /\ convCalls' = [convCalls EXCEPT ![c] = ConvNavigates([@ EXCEPT !.text = container])]
    /\ UNCHANGED <<notePath, noteExt, isConverting, pendingPlaintext, leafOpen>>
    /\ UNCHANGED <<overlay, flowVars>>
    /\ UNCHANGED <<smVars, codecVars, viewVars, histVars>>

\* toDecrypted, from the return of vault.read to await decode(raw, password)
ToDecryptedRead(c) ==
    /\ convCalls[c].pc = "read"
    /\ convCalls[c].kind = "toDecrypted"
    /\ convCalls' = [convCalls EXCEPT ![c] = [@ EXCEPT !.pc = "decode", !.text = container]]
    /\ UNCHANGED <<notePath, noteExt, isConverting, pendingPlaintext, leafOpen>>
    /\ UNCHANGED <<overlay, flowVars>>
    /\ UNCHANGED <<smVars, codecVars, viewVars, histVars>>

\* toDecrypted returning on a null plaintext without its finally clause
ToDecryptedKeepsFlag(c) ==
    /\ convCalls[c].pc = "decode"
    /\ \E outcome \in {Decode(convCalls[c].text, convCalls[c].password)} :
          IF outcome.kind = "value"
          THEN convCalls' = [convCalls EXCEPT ![c] =
                                ConvNavigates([@ EXCEPT !.text = Text(outcome.value)])]
          ELSE convCalls' = [convCalls EXCEPT ![c] = EndedConv("wrong")]
    /\ UNCHANGED <<notePath, noteExt, isConverting, pendingPlaintext, leafOpen>>
    /\ UNCHANGED <<overlay, flowVars>>
    /\ UNCHANGED <<smVars, codecVars, viewVars, histVars>>

\* toDecrypted, from the return of decode to its next await or, with no
\* plaintext, to its end: the finally clause resets the flag
ToDecryptedDecoded(c) ==
    /\ convCalls[c].pc = "decode"
    /\ \E outcome \in {Decode(convCalls[c].text, convCalls[c].password)} :
          CASE outcome.kind = "value" ->
                  /\ convCalls' = [convCalls EXCEPT ![c] =
                                      ConvNavigates([@ EXCEPT !.text = Text(outcome.value)])]
                  /\ UNCHANGED isConverting
            [] outcome.kind = "null" ->
                  /\ convCalls' = [convCalls EXCEPT ![c] = EndedConv("wrong")]
                  /\ isConverting' = FALSE
            [] OTHER ->
                  /\ convCalls' = [convCalls EXCEPT ![c] = EndedConv("threw")]
                  /\ isConverting' = FALSE
    /\ UNCHANGED <<notePath, noteExt, pendingPlaintext, leafOpen>>
    /\ UNCHANGED <<overlay, flowVars>>
    /\ UNCHANGED <<smVars, codecVars, viewVars, histVars>>

\* a conversion, from the return of leaf.setViewState({type: "empty"}) through the
\* 300 ms it waits to what it writes: the leaves that showed the file are empty
ConvNavigated(c) ==
    /\ convCalls[c].pc = "navigate"
    /\ leafOpen' = FALSE
    /\ convCalls' = [convCalls EXCEPT ![c] = [@ EXCEPT !.pc = "write"]]
    /\ UNCHANGED <<notePath, noteExt, isConverting, pendingPlaintext>>
    /\ UNCHANGED <<overlay, flowVars>>
    /\ UNCHANGED <<smVars, codecVars, viewVars, histVars>>

\* toEncrypted with a password, to await encode(plaintext, password, hint);
\* without one, to await vault.modify(file, createPendingFile());
\* toDecrypted, to await vault.modify(file, plaintext)
ConvWrites(c) ==
    /\ convCalls[c].pc = "write"
    /\ IF convCalls[c].kind = "toEncrypted"
          /\ convCalls[c].password \notin {NoPassword, <<>>}
       THEN \E encrypted \in {EncryptText(convCalls[c].text.text, convCalls[c].password,
                                          DEFAULT_ENCRYPTION_PARAMS, rngDraws)} :
            /\ encLog' = Append(encLog, Logged(encrypted, convCalls[c].text.text,
                                               convCalls[c].password))
            /\ rngDraws' = rngDraws + 2
            /\ convCalls' = [convCalls EXCEPT ![c] =
                                [@ EXCEPT !.pc = "encode",
                                          !.write = FileData(<<>>, encrypted)]]
       ELSE /\ convCalls' = [convCalls EXCEPT ![c] =
                                [@ EXCEPT !.pc = "modify",
                                          !.write = IF convCalls[c].kind = "toEncrypted"
                                                    THEN CreatePendingFile
                                                    ELSE convCalls[c].text]]
            /\ UNCHANGED <<encLog, rngDraws>>
    /\ UNCHANGED <<container, origin, tampered, result>>
    /\ UNCHANGED <<notePath, noteExt, isConverting, pendingPlaintext, leafOpen>>
    /\ UNCHANGED <<overlay, flowVars>>
    /\ UNCHANGED <<smVars, viewVars, histVars>>

\* toEncrypted, from the return of encode to await vault.modify(file, encryptedJson)
ToEncryptedEncoded(c) ==
    /\ convCalls[c].pc = "encode"
    /\ convCalls' = [convCalls EXCEPT ![c] = [@ EXCEPT !.pc = "modify"]]
    /\ UNCHANGED <<notePath, noteExt, isConverting, pendingPlaintext, leafOpen>>
    /\ UNCHANGED <<overlay, flowVars>>
    /\ UNCHANGED <<smVars, codecVars, viewVars, histVars>>

\* a conversion, from the return of vault.modify, which has written the file,
\* to await fileManager.renameFile(file, newPath): toEncrypted caches the
\* password it encrypted with, or keeps the plaintext for the set-password card
ConvModified(c) ==
    /\ convCalls[c].pc = "modify"
    /\ container' = convCalls[c].write
    /\ IF convCalls[c].kind = "toEncrypted" /\ convCalls[c].write # CreatePendingFile
       THEN /\ Put(convCalls[c].newPath, convCalls[c].password, <<>>, NoKey)
            /\ UNCHANGED pendingPlaintext
       ELSE IF convCalls[c].kind = "toEncrypted"
       THEN /\ pendingPlaintext' = [pendingPlaintext EXCEPT ![convCalls[c].newPath] =
                                                              convCalls[c].text.text]
            /\ UNCHANGED smVars
       ELSE UNCHANGED <<pendingPlaintext, smVars>>
    /\ convCalls' = [convCalls EXCEPT ![c] = [@ EXCEPT !.pc = "rename"]]
    /\ UNCHANGED <<origin, tampered, result, encLog, rngDraws>>
    /\ UNCHANGED <<notePath, noteExt, isConverting, leafOpen>>
    /\ UNCHANGED <<overlay, flowVars>>
    /\ UNCHANGED <<viewVars, histVars>>

\* the vault renames the note: its TFile takes the new path, the plugin's
\* rename handler calls sessionManager.handleRename(oldPath, file.path)
Renamed(newPath, extension) ==
    /\ notePath' = newPath
    /\ noteExt' = extension
    /\ file' = IF file = NoFile THEN NoFile ELSE newPath
    /\ HandleRename(notePath, newPath)

\* a conversion ends: its finally clause resets the flag
ConvEnds(c, outcome) ==
    /\ convCalls' = [convCalls EXCEPT ![c] = EndedConv(outcome)]
    /\ isConverting' = FALSE

\* a conversion, from the return of renameFile to its end or to await
\* leaf.openFile(file).  Where the note has the new path already, renameFile
\* is the host's to decide: it rejects, or it returns having moved nothing
ConvRenamed(c) ==
    /\ convCalls[c].pc = "rename"
    /\ \/ /\ notePath = convCalls[c].newPath
          /\ ConvEnds(c, "threw")
          /\ UNCHANGED <<notePath, noteExt, file>>
          /\ UNCHANGED smVars
       \/ /\ IF notePath = convCalls[c].newPath
             THEN UNCHANGED <<notePath, noteExt, file>> /\ UNCHANGED smVars
             ELSE Renamed(convCalls[c].newPath,
                          IF convCalls[c].kind = "toEncrypted"
                          THEN LOCKED_EXTENSION ELSE "md")
          /\ IF convCalls[c].leaves
             THEN /\ convCalls' = [convCalls EXCEPT ![c] = [@ EXCEPT !.pc = "open"]]
                  /\ UNCHANGED isConverting
             ELSE ConvEnds(c, "converted")
    /\ UNCHANGED <<pendingPlaintext, leafOpen>>
    /\ UNCHANGED <<fileData, currentPassword, cachedPlaintext, encryptedJsonForSave,
                   isSavingEnabled, isLoadingFile, isSavingInProgress, editorData,
                   saveCalls, loadCall, unloadCall, changeCall>>
    /\ UNCHANGED <<overlay, flowVars>>
    /\ UNCHANGED <<codecVars, histVars>>

\* a conversion, from the return of leaf.openFile(file) to its end
ConvOpened(c) ==
    /\ convCalls[c].pc = "open"
    /\ leafOpen' = TRUE
    /\ ConvEnds(c, "converted")
    /\ UNCHANGED <<notePath, noteExt, pendingPlaintext>>
    /\ UNCHANGED <<overlay, flowVars>>
    /\ UNCHANGED <<smVars, codecVars, viewVars, histVars>>

\* the user renames the .locked note while no conversion is in progress
RenameNote ==
    /\ noteExt = LOCKED_EXTENSION
    /\ \A c \in ConvIds : ~Converting(c)
    /\ Renamed(NewPath(notePath), noteExt)
    /\ UNCHANGED <<isConverting, pendingPlaintext, convCalls, leafOpen>>
    /\ UNCHANGED <<fileData, currentPassword, cachedPlaintext, encryptedJsonForSave,
                   isSavingEnabled, isLoadingFile, isSavingInProgress, editorData,
                   saveCalls, loadCall, unloadCall, changeCall>>
    /\ UNCHANGED <<overlay, flowVars>>
    /\ UNCHANGED <<codecVars, histVars>>

----------------------------------------------------------------------------
(* Specifications *)

\* no put made yet, no migration failed yet
NoHistory ==
    /\ putUntil = [p \in Paths |-> NoExpiry]
    /\ migrateFailures = 0

\* a view just constructed
ViewIdle ==
    /\ file = NoFile
    /\ fileData = NoFileData
    /\ currentPassword = NoPassword
    /\ cachedPlaintext = Text(<<>>)
    /\ encryptedJsonForSave = Text(<<>>)
    /\ isSavingEnabled = FALSE
    /\ isLoadingFile = FALSE
    /\ isSavingInProgress = FALSE
    /\ editorData = Text(<<>>)
    /\ saveCalls = [s \in SaveIds |-> IdleSave]
    /\ loadCall = IdleLoad
    /\ unloadCall = "idle"
    /\ changeCall = IdleChange

\* the plugin just loaded: no card shown, no handler running, the note of
\* ViewPath a .locked file no leaf shows, nothing converted or pending
AppIdle ==
    /\ overlay = "none"
    /\ unlockCall = IdleUnlock
    /\ encryptCall = IdleEncrypt
    /\ stateCall = IdleState
    /\ lockCall = IdleLock
    /\ notePath = ViewPath
    /\ noteExt = LOCKED_EXTENSION
    /\ isConverting = FALSE
    /\ pendingPlaintext = [p \in Paths |-> NoPlaintext]
    /\ convCalls = [c \in ConvIds |-> IdleConv]
    /\ leafOpen = FALSE

\* nothing encoded, stored or decoded yet
CodecIdle ==
    /\ container = NoContainer
    /\ origin = NoOrigin
    /\ tampered = "none"
    /\ result = NoResult
    /\ encLog = <<>>
    /\ rngDraws = 0

\* new SessionManager(mode, sessionTimeoutMinutes, timedWindowSeconds)
Init ==
    /\ entries = <<>>
    /\ timers = [p \in Paths |-> NoTimer]
    /\ mode \in Modes
    /\ sessionTimeoutMs \in {MinutesToMs(m) : m \in MinuteChoices}
    /\ timedWindowMs \in {SecondsToMs(s) : s \in SecondChoices}
    /\ now = 0
    /\ ticks = 0
    /\ orphans = EmptyBag
    /\ NoHistory
    /\ CodecIdle
    /\ ViewIdle
    /\ AppIdle

PutAny ==
    /\ \E p \in Paths, c \in Credentials, h \in Hints : Put(p, c[1], h, c[2])
    /\ UNCHANGED <<codecVars, viewVars, histVars, appVars>>
ClearFileAny == (\E p \in Paths : ClearFile(p)) /\ UNCHANGED <<codecVars, viewVars, histVars, appVars>>
ClearAny == Clear /\ UNCHANGED <<codecVars, viewVars, histVars, appVars>>
SetModeAny == (\E m \in Modes : SetMode(m)) /\ UNCHANGED <<codecVars, viewVars, histVars, appVars>>
\* the settings tab offers each duration only while its mode is the active one
SetSessionTimeoutAny ==
    /\ mode = "session-password"
    /\ \E m \in MinuteChoices : SetSessionTimeout(m)
    /\ UNCHANGED <<codecVars, viewVars, histVars, appVars>>
SetTimedWindowAny ==
    /\ mode = "timed-password"
    /\ \E s \in SecondChoices : SetTimedWindow(s)
    /\ UNCHANGED <<codecVars, viewVars, histVars, appVars>>
HandleRenameAny ==
    (\E o \in Paths, n \in Paths : HandleRename(o, n)) /\ UNCHANGED <<codecVars, viewVars, histVars, appVars>>
TimerFireAny == (\E s \in Paths : TimerFire(s)) /\ UNCHANGED <<codecVars, viewVars, histVars, appVars>>
OrphanFireAny == (\E o \in BagToSet(orphans) : OrphanFire(o)) /\ UNCHANGED <<codecVars, viewVars, histVars, appVars>>
AdvanceAny == (\E d \in ClockSteps : Advance(d)) /\ UNCHANGED <<codecVars, viewVars, histVars, appVars>>

Next ==
    \/ PutAny
    \/ ClearFileAny
    \/ ClearAny
    \/ SetModeAny
    \/ SetSessionTimeoutAny
    \/ SetTimedWindowAny
    \/ HandleRenameAny
    \/ TimerFireAny
    \/ OrphanFireAny
    \/ AdvanceAny

\* the session cache
Spec == Init /\ [][Next]_vars

\* the plugin's session manager as constructed with its defaults, idle
SessionIdle ==
    /\ entries = <<>>
    /\ timers = [p \in Paths |-> NoTimer]
    /\ mode = "session-password"
    /\ sessionTimeoutMs = MinutesToMs(30)
    /\ timedWindowMs = SecondsToMs(60)
    /\ now = 0
    /\ ticks = 0
    /\ orphans = EmptyBag
    /\ NoHistory

InitCodec == SessionIdle /\ CodecIdle /\ ViewIdle /\ AppIdle

EncodeAny ==
    \E pt \in Plaintexts, pw \in Passwords, h \in HintTexts : EncodeCall(pt, pw, h)
EncodeShort == \E pt \in ShortPlaintexts : EncodeCall(pt, <<112, 49>>, <<104>>)
DecodeAny == \E pw \in Passwords : DecodeCall(pw)
TamperBytesAny ==
    /\ container # NoContainer
    /\ \E packed \in {Atob(container.data).bytes} :
           \E i \in 1..Len(packed), b \in 0..7 : TamperBytes(packed, i, b)
TamperTextAny ==
    /\ container # NoContainer
    /\ \E i \in 1..Len(container.data), b \in 0..6 : TamperText(i, b)

NextCodec == EncodeAny \/ DecodeAny

\* encode and decode
SpecCodec == InitCodec /\ [][NextCodec]_vars

NextTamper == EncodeShort \/ TamperBytesAny \/ TamperTextAny \/ DecodeAny

\* encode, a one-bit change of the stored data member, decode
SpecTamper == InitCodec /\ [][NextTamper]_vars

\* the modes the view runs under
ViewModes == {"session-password", "keys-only", "no-storage"}

\* the notes stored under ViewPath: "a" in the current format, "a" and
\* U+FEFF "a" in the legacy format
StoredNotes ==
    {[plaintext |-> <<97>>, legacy |-> FALSE],
     [plaintext |-> <<97>>, legacy |-> TRUE],
     [plaintext |-> <<65279, 97>>, legacy |-> TRUE]}

\* a note of ViewPath was encrypted under a password and stored, and the session
\* manager was given the password "p1" (with the key it derives for the stored
\* salt) for that path; the view is new
InitView ==
    /\ mode \in ViewModes
    /\ sessionTimeoutMs = MinutesToMs(30)
    /\ timedWindowMs = SecondsToMs(60)
    /\ now = 0
    /\ ticks = 0
    /\ orphans = EmptyBag
    /\ NoHistory
    /\ \E k \in Keys :
          /\ entries = IF PutStores(k)
                       THEN <<PutEntry(ViewPath, <<112, 49>>, <<104>>, k)>>
                       ELSE <<>>
          /\ timers = [p \in Paths |->
                          IF p = ViewPath /\ PutSchedules
                          THEN LiveTimer(p, PutDelay) ELSE NoTimer]
    /\ \E pw \in Passwords, stored \in StoredNotes :
       \E encrypted \in {EncryptText(stored.plaintext, pw, DEFAULT_ENCRYPTION_PARAMS, 0)} :
          /\ container = IF stored.legacy
                         THEN LegacyFileData(<<104>>, encrypted)
                         ELSE FileData(<<104>>, encrypted)
          /\ origin = [plaintext |-> stored.plaintext, password |-> pw, hint |-> <<104>>,
                       made |-> TRUE]
          /\ encLog = <<Logged(encrypted, stored.plaintext, pw)>>
    /\ tampered = "none"
    /\ result = NoResult
    /\ rngDraws = 2
    /\ ViewIdle
    /\ AppIdle

SaveCallAny == \E s \in SaveIds : SaveCall(s)
SaveEncodedAny == \E s \in SaveIds : SaveEncoded(s)
SaveWrittenAny == \E s \in SaveIds : SaveWritten(s)
UserEditAny == \E t \in EditTexts : UserEdit(t)

NextView ==
    \/ SaveCallAny
    \/ SaveEncodedAny
    \/ SaveWrittenAny
    \/ UserEditAny
    \/ UnloadCall
    \/ UnloadDone
    \/ LoadCall
    \/ LoadRead
    \/ LoadDecoded
    \/ LoadKeyDecoded
    \/ LoadSuperDone
    \/ MigrateEncoded
    \/ MigrateModified
    \/ LoadEmptyDone

\* one view: loading, editing, saving and unloading the note
SpecView == InitView /\ [][NextView]_vars

NextMigrate ==
    \/ UserEditAny
    \/ UnloadCall
    \/ UnloadDone
    \/ LoadCall
    \/ LoadRead
    \/ LoadDecoded
    \/ LoadKeyDecoded
    \/ LoadSuperDone
    \/ MigrateEncoded
    \/ MigrateModified
    \/ MigrateEncodeFails
    \/ MigrateModifyFails
    \/ LoadEmptyDone

\* one view: loading and unloading the note, the migration of a legacy note
\* succeeding or failing
SpecMigrate == InitView /\ [][NextMigrate]_vars

NextPending ==
    \/ CreatePendingCall
    \/ IsPendingFileCall
    \/ IsEncryptedFileCall
    \/ ParseCall
    \/ DecodeAny
    \/ UnloadCall
    \/ UnloadDone
    \/ LoadCall
    \/ LoadRead
    \/ LoadDecoded
    \/ LoadKeyDecoded
    \/ LoadSuperDone
    \/ MigrateEncoded
    \/ MigrateModified
    \/ LoadEmptyDone

\* a note that is stored encrypted or newly created (pending): the predicates,
\* parse and decode applied to it, the view opening it
SpecPending == InitView /\ [][NextPending]_vars

\* the version numbers a document may state
VersionChoices == {0, 1, 2, 3}

ReversionAny ==
    \E f \in {AFE_FORMAT, LEGACY_FEP_FORMAT}, v \in VersionChoices : Reversion(f, v)

NextVersions == EncodeShort \/ ReversionAny \/ NeedsMigrationCall

\* documents of either tag and of any version number, needsMigration
SpecVersions == InitCodec /\ [][NextVersions]_vars

NextConfig ==
    \/ PutAny
    \/ ClearFileAny
    \/ ClearAny
    \/ SetModeAny
    \/ SetSessionTimeoutAny
    \/ SetTimedWindowAny
    \/ TimerFireAny
    \/ AdvanceAny

\* the session cache of files that are not renamed: put under every mode and
\* configuration, the configuration changed at run time
SpecConfig == Init /\ [][NextConfig]_vars

ChangeResumedAny == \E pw \in NewPasswords, h \in NewHints : ChangeResumed(pw, h)

NextChange ==
    \/ SaveCallAny
    \/ SaveEncodedAny
    \/ SaveWrittenAny
    \/ UserEditAny
    \/ LoadCall
    \/ LoadRead
    \/ LoadDecoded
    \/ LoadKeyDecoded
    \/ LoadSuperDone
    \/ MigrateEncoded
    \/ MigrateModified
    \/ LoadEmptyDone
    \/ ChangeCall
    \/ ChangeCancelled
    \/ ChangeResumedAny

\* one view: the note loaded, edited and saved, its password changed
SpecChange == InitView /\ [][NextChange]_vars

\* the session cache with, for each path, the time up to which its last put is
\* to keep its entry: set by put where the mode schedules an expiry, dropped by
\* clearFile of the path, by clear, by setMode and by a handleRename that names
\* the path
PutUntil(p, k) == IF PutStores(k) /\ PutSchedules THEN now + PutDelay ELSE NoExpiry

PutTracked ==
    /\ \E p \in Paths, k \in Keys, h \in Hints :
          /\ Put(p, <<112, 49>>, h, k)
          /\ putUntil' = [putUntil EXCEPT ![p] = PutUntil(p, k)]
    /\ UNCHANGED <<codecVars, viewVars, migrateFailures, appVars>>
ClearFileTracked ==
    /\ \E p \in Paths : ClearFile(p) /\ putUntil' = [putUntil EXCEPT ![p] = NoExpiry]
    /\ UNCHANGED <<codecVars, viewVars, migrateFailures, appVars>>
ClearTracked ==
    /\ Clear
    /\ putUntil' = [p \in Paths |-> NoExpiry]
    /\ UNCHANGED <<codecVars, viewVars, migrateFailures, appVars>>
SetModeTracked ==
    /\ \E m \in Modes : SetMode(m)
    /\ putUntil' = [p \in Paths |-> NoExpiry]
    /\ UNCHANGED <<codecVars, viewVars, migrateFailures, appVars>>
HandleRenameTracked ==
    /\ \E o \in Paths, n \in Paths :
          /\ HandleRename(o, n)
          /\ putUntil' = [putUntil EXCEPT ![o] = NoExpiry, ![n] = NoExpiry]
    /\ UNCHANGED <<codecVars, viewVars, migrateFailures, appVars>>

NextExpiry ==
    \/ PutTracked
    \/ ClearFileTracked
    \/ ClearTracked
    \/ SetModeTracked
    \/ SetSessionTimeoutAny
    \/ SetTimedWindowAny
    \/ HandleRenameTracked
    \/ TimerFireAny
    \/ OrphanFireAny
    \/ AdvanceAny

\* the session cache, each put remembered
SpecExpiry == Init /\ [][NextExpiry]_vars

\* the hints of the format runs: "", "h", a quote, a backslash, a line feed,
\* U+0001, e-acute, a lone high surrogate, U+1F600, "\u"
FormatHints ==
    {<<>>, <<104>>, <<34>>, <<92>>, <<10>>, <<1>>, <<233>>, <<55357>>,
     <<55357, 56832>>, <<92, 117>>}

EncodeHinted == \E pt \in ShortPlaintexts, h \in FormatHints : EncodeCall(pt, <<112, 49>>, h)

NextFormat == EncodeHinted \/ DecodeAny

\* encode with hints of every kind, decode
SpecFormat == InitCodec /\ [][NextFormat]_vars

\* encryption parameters a document may state: the defaults; a shorter iv and
\* salt with another hash, iteration count and key size; the defaults with
\* another iteration count; the defaults with a 12-byte iv
ParamChoices ==
    {DEFAULT_ENCRYPTION_PARAMS,
     [algorithm |-> "AES-GCM", keySize |-> 128, ivLength |-> 12,
      keyDerivation |-> [function |-> "PBKDF2", hash |-> "SHA-256",
                         iterations |-> 100000, saltLength |-> 8]],
     [DEFAULT_ENCRYPTION_PARAMS EXCEPT !.keyDerivation.iterations = 100000],
     [DEFAULT_ENCRYPTION_PARAMS EXCEPT !.ivLength = 12]}

EncryptAny ==
    \E pt \in ShortPlaintexts, q \in ParamChoices : EncryptCall(pt, <<112, 49>>, <<104>>, q)
DeclareParamsAny == \E q \in ParamChoices : DeclareParams(q)

NextParams == EncryptAny \/ DeclareParamsAny \/ DecodeAny

\* documents written under parameters of any kind, decode
SpecParams == InitCodec /\ [][NextParams]_vars

\* texts given to parse and isEncryptedFile: "", "a", "{" (no JSON); null; a
\* JSON value without a member format; an object of an unknown tag; the pending
\* marker; objects that have the current and the legacy tag and nothing else;
\* a legacy document
RawInputs ==
    {Text(<<>>), Text(<<97>>), Text(<<123>>), JsonNull, JsonNoFormat,
     [format |-> "file-encrypt"],
     CreatePendingFile,
     [format |-> AFE_FORMAT],
     [format |-> LEGACY_FEP_FORMAT],
     [format |-> LEGACY_FEP_FORMAT, version |-> 1,
      encryption |-> DEFAULT_ENCRYPTION_PARAMS, keyType |-> "password",
      hint |-> <<104>>, data |-> <<65, 65, 65, 65>>]}

StoreRawAny == \E raw \in RawInputs : StoreRaw(raw)

NextProbe == EncodeShort \/ StoreRawAny \/ ParseCall \/ IsEncryptedFileCall

\* parse and isEncryptedFile of texts of every kind
SpecProbe == InitCodec /\ [][NextProbe]_vars

\* lengths below ivLength + saltLength + 1 of the default parameters
ShortLengths == {0, 1, 16, 32}

TruncateAny ==
    /\ container # NoContainer
    /\ \E packed \in {Atob(container.data).bytes} :
           \E n \in ShortLengths : Truncate(packed, n)

NextShort == EncodeShort \/ TruncateAny \/ DecodeAny

\* encode, the data member cut short, decode
SpecShort == InitCodec /\ [][NextShort]_vars

\* what the vault holds under ViewPath when the view opens it: "a" encrypted in
\* the current or in the legacy format, nothing, a text that is no JSON
\* document, or the pending marker
LockedNotes == {"current", "legacy", "blank", "invalid", "pending"}

\* the note is stored; where it is pending its plaintext "a" is kept for the
\* set-password card; the session manager was given "p1" for the path
InitLock ==
    /\ mode \in ViewModes
    /\ sessionTimeoutMs = MinutesToMs(30)
    /\ timedWindowMs = SecondsToMs(60)
    /\ now = 0
    /\ ticks = 0
    /\ orphans = EmptyBag
    /\ NoHistory
    /\ \E k \in Keys :
          /\ entries = IF PutStores(k)
                       THEN <<PutEntry(ViewPath, <<112, 49>>, <<104>>, k)>>
                       ELSE <<>>
          /\ timers = [p \in Paths |->
                          IF p = ViewPath /\ PutSchedules
                          THEN LiveTimer(p, PutDelay) ELSE NoTimer]
    /\ \E pw \in Passwords, stored \in LockedNotes :
       \E encrypted \in {EncryptText(<<97>>, pw, DEFAULT_ENCRYPTION_PARAMS, 0)} :
          /\ container = CASE stored = "current" -> FileData(<<104>>, encrypted)
                           [] stored = "legacy" -> LegacyFileData(<<104>>, encrypted)
                           [] stored = "blank" -> Text(<<>>)
                           [] stored = "invalid" -> Text(<<97>>)
                           [] OTHER -> CreatePendingFile
          /\ origin = IF stored \in {"current", "legacy"}
                      THEN [plaintext |-> <<97>>, password |-> pw, hint |-> <<104>>,
                            made |-> TRUE]
                      ELSE NoOrigin
          /\ encLog = IF stored \in {"current", "legacy"}
                      THEN <<Logged(encrypted, <<97>>, pw)>>
                      ELSE <<>>
          /\ rngDraws = IF stored \in {"current", "legacy"} THEN 2 ELSE 0
          /\ pw = <<112, 49>> \/ stored \in {"current", "legacy"}
          /\ overlay = "none"
          /\ unlockCall = IdleUnlock
          /\ encryptCall = IdleEncrypt
          /\ stateCall = IdleState
          /\ lockCall = IdleLock
          /\ notePath = ViewPath
          /\ noteExt = LOCKED_EXTENSION
          /\ isConverting = FALSE
          /\ pendingPlaintext = [p \in Paths |->
                                    IF p = ViewPath /\ stored = "pending"
                                    THEN <<97>> ELSE NoPlaintext]
          /\ convCalls = [c \in ConvIds |-> IdleConv]
          /\ leafOpen = FALSE
    /\ tampered = "none"
    /\ result = NoResult
    /\ ViewIdle

\* onLoadFile on a view that has held no file before
OpenNote == overlay = "none" /\ encryptedJsonForSave = Text(<<>>) /\ LoadCall

\* the user types "ab" into the editor
UserTypes == UserEdit(Text(<<97, 98>>))

DoUnlockAny == \E enteredPassword \in Passwords : DoUnlock(enteredPassword)
DoEncryptAny == \E enteredPassword \in CardPasswords, hint \in CardHints :
                   DoEncrypt(enteredPassword, hint)
SetStateAny == \E stateMode \in StateModes : SetStateCall(stateMode)

NextLock ==
    \/ SaveCallAny
    \/ SaveEncodedAny
    \/ SaveWrittenAny
    \/ UserTypes
    \/ UnloadCall
    \/ UnloadDone
    \/ OpenNote
    \/ LoadRead
    \/ LoadDecoded
    \/ LoadKeyDecoded
    \/ LoadSuperDone
    \/ MigrateEncoded
    \/ MigrateModified
    \/ LoadEmptyDone
    \/ DoUnlockAny
    \/ UnlockRead
    \/ UnlockDecoded
    \/ UnlockKeyDerived
    \/ UnlockMigrateEncoded
    \/ UnlockMigrateModified
    \/ DoEncryptAny
    \/ DoEncryptEncoded
    \/ DoEncryptModified
    \/ DoEncryptKeyDerived
    \/ SetStateAny
    \/ SetStateDone
    \/ LockCall

\* one view opening a note it may have to unlock or to encrypt first: loading,
\* the unlock form, the set-password card, typing, saving, setState,
\* lockAndClose, unloading
SpecLock == InitLock /\ [][NextLock]_vars

\* the vault's file is replaced by a text that is no JSON document ("a"), as a
\* sync or another program does
NoteReplaced == container # Text(<<97>>) /\ StoreRaw(Text(<<97>>))

NextUnlock ==
    \/ UnloadCall
    \/ UnloadDone
    \/ OpenNote
    \/ LoadRead
    \/ LoadDecoded
    \/ LoadKeyDecoded
    \/ LoadSuperDone
    \/ MigrateEncoded
    \/ MigrateModified
    \/ LoadEmptyDone
    \/ DoUnlockAny
    \/ UnlockRead
    \/ UnlockDecoded
    \/ UnlockKeyDerived
    \/ UnlockMigrateEncoded
    \/ UnlockMigrateModified
    \/ LockCall
    \/ NoteReplaced

\* one view opening a locked note: the unlock form, submitted with the right
\* or a wrong password, on a file that may have been replaced meanwhile
SpecUnlock == InitLock /\ [][NextUnlock]_vars

\* the note is "a": a markdown file, or a .locked file encrypted under one of
\* the passwords; a leaf shows it or none does; the session manager was given
\* "p1" for the path
InitConvert ==
    /\ mode \in ViewModes
    /\ sessionTimeoutMs = MinutesToMs(30)
    /\ timedWindowMs = SecondsToMs(60)
    /\ now = 0
    /\ ticks = 0
    /\ orphans = EmptyBag
    /\ NoHistory
    /\ \E k \in Keys :
          /\ entries = IF PutStores(k)
                       THEN <<PutEntry(ViewPath, <<112, 49>>, <<104>>, k)>>
                       ELSE <<>>
          /\ timers = [p \in Paths |->
                          IF p = ViewPath /\ PutSchedules
                          THEN LiveTimer(p, PutDelay) ELSE NoTimer]
    /\ \/ /\ noteExt = "md"
          /\ container = Text(<<97>>)
          /\ origin = NoOrigin
          /\ encLog = <<>>
          /\ rngDraws = 0
       \/ /\ noteExt = LOCKED_EXTENSION
          /\ \E pw \in Passwords :
             \E encrypted \in {EncryptText(<<97>>, pw, DEFAULT_ENCRYPTION_PARAMS, 0)} :
                /\ container = FileData(<<104>>, encrypted)
                /\ origin = [plaintext |-> <<97>>, password |-> pw, hint |-> <<104>>,
                             made |-> TRUE]
                /\ encLog = <<Logged(encrypted, <<97>>, pw)>>
                /\ rngDraws = 2
    /\ tampered = "none"
    /\ result = NoResult
    /\ ViewIdle
    /\ overlay = "none"
    /\ unlockCall = IdleUnlock
    /\ encryptCall = IdleEncrypt
    /\ stateCall = IdleState
    /\ lockCall = IdleLock
    /\ notePath = ViewPath
    /\ isConverting = FALSE
    /\ pendingPlaintext = [p \in Paths |-> NoPlaintext]
    /\ convCalls = [c \in ConvIds |-> IdleConv]
    /\ leafOpen \in BOOLEAN

\* an EncryptedMarkdownView opens the note, a .locked file
OpenLocked == noteExt = LOCKED_EXTENSION /\ OpenNote

ToEncryptedAny == \E c \in ConvIds : ToEncryptedCall(c)
ToDecryptedAny == \E c \in ConvIds : ToDecryptedCall(c)
ToEncryptedReadAny == \E c \in ConvIds : ToEncryptedRead(c)
ToDecryptedReadAny == \E c \in ConvIds : ToDecryptedRead(c)
ToDecryptedDecodedAny == \E c \in ConvIds : ToDecryptedDecoded(c)
ConvNavigatedAny == \E c \in ConvIds : ConvNavigated(c)
ConvWritesAny == \E c \in ConvIds : ConvWrites(c)
ToEncryptedEncodedAny == \E c \in ConvIds : ToEncryptedEncoded(c)
ConvModifiedAny == \E c \in ConvIds : ConvModified(c)
ConvRenamedAny == \E c \in ConvIds : ConvRenamed(c)
ConvOpenedAny == \E c \in ConvIds : ConvOpened(c)

NextConvert ==
    \/ ToEncryptedAny
    \/ ToDecryptedAny
    \/ ToEncryptedReadAny
    \/ ToDecryptedReadAny
    \/ ToDecryptedDecodedAny
    \/ ConvNavigatedAny
    \/ ConvWritesAny
    \/ ToEncryptedEncodedAny
    \/ ConvModifiedAny
    \/ ConvRenamedAny
    \/ ConvOpenedAny
    \/ RenameNote
    \/ OpenLocked
    \/ LoadRead
    \/ LoadDecoded
    \/ LoadKeyDecoded
    \/ LoadSuperDone
    \/ LoadEmptyDone
    \/ DoEncryptAny
    \/ DoEncryptEncoded
    \/ DoEncryptModified
    \/ DoEncryptKeyDerived

\* the note converted between .md and .locked, renamed, opened in a view and
\* given its password there
SpecConvert == InitConvert /\ [][NextConvert]_vars

NextDecrypt ==
    \/ ToEncryptedAny
    \/ ToDecryptedAny
    \/ ToEncryptedReadAny
    \/ ToDecryptedReadAny
    \/ ToDecryptedDecodedAny
    \/ ConvNavigatedAny
    \/ ConvWritesAny
    \/ ToEncryptedEncodedAny
    \/ ConvModifiedAny
    \/ ConvRenamedAny
    \/ ConvOpenedAny
    \/ RenameNote
    \/ ClearAny

\* the note converted between .md and .locked and renamed, the session cache
\* cleared (lock all) at any time
SpecDecrypt == InitConvert /\ [][NextDecrypt]_vars

----------------------------------------------------------------------------
(* The container codec: properties *)

\* the last decode was of the stored document with the password it was encoded with
DecodedWithRightPassword ==
    origin.made /\ result.kind # "none" /\ result.password = origin.password

\* C1: decode(encode(P, K, h), K) returns exactly P, for every plaintext P,
\* password K and hint h.
C1_RoundTrip ==
    (DecodedWithRightPassword /\ tampered = "none") =>
        (result.kind = "value" /\ result.value = origin.plaintext)

C3_TamperDetection ==
    (DecodedWithRightPassword /\ tampered # "none") => result.kind = "null"

\* C4: every encode call draws a salt and an iv of its own: no two encryptions
\* share an iv, a salt, a (key, iv) pair or a data blob, also when they have the
\* same plaintext and password.
C4_NonceUniqueness ==
    \A i, j \in 1..Len(encLog) :
        i < j =>
            /\ encLog[i].iv # encLog[j].iv
            /\ encLog[i].salt # encLog[j].salt
            /\ <<encLog[i].key, encLog[i].iv>> # <<encLog[j].key, encLog[j].iv>>
            /\ encLog[i].data # encLog[j].data

\* two successive encode calls had the same plaintext and password
C4_Witness ==
    /\ Len(encLog) >= 2
    /\ encLog[1].plaintext = encLog[2].plaintext
    /\ encLog[1].password = encLog[2].password
    /\ encLog[1].data # encLog[2].data

----------------------------------------------------------------------------
(* The view: properties *)

\* C5: whatever a call of save() hands to the host save pipeline (what
\* getViewData() returns when super.save takes it) is an encrypted document and
\* never the editor's plaintext, however save, onUnloadFile and onLoadFile
\* interleave, so that the stored file of the note is always an encrypted document.
C5_SaveHandsEncrypted ==
    /\ \A s \in SaveIds :
          saveCalls[s].pc = "superSave" => IsEncryptedFile(saveCalls[s].data)
    /\ IsEncryptedFile(container)

----------------------------------------------------------------------------
(* The session cache: properties *)

\* an entry whose expiry timestamp has not passed
Unexpired(e) == e.expiry = NoExpiry \/ e.expiry >= now

EntryAt(p) == entries[IndexOf(p)]

\* C6: in session-password and timed-password modes getPassword(p) returns the
\* password of the unexpired entry stored under p; when there is none, the
\* password of some other unexpired entry; when there is none either, null.
\* In no-storage and keys-only modes it returns null for every path.
C6_CrossFileSharing ==
    \A p \in QueryPaths :
        IF mode \in {"session-password", "timed-password"}
        THEN IF HasEntry(p) /\ Unexpired(EntryAt(p))
             THEN GetPassword(p) = EntryAt(p).password /\ GetPassword(p) \in Passwords
             ELSE IF \E i \in 1..Len(entries) : Unexpired(entries[i])
                  THEN /\ GetPassword(p) \in Passwords
                       /\ \E i \in 1..Len(entries) :
                             Unexpired(entries[i]) /\ GetPassword(p) = entries[i].password
                  ELSE GetPassword(p) = NoPassword
        ELSE GetPassword(p) = NoPassword

\* only A.txt has an entry: getPassword answers B.txt and C.txt with A's password
C6_Witness ==
    /\ mode = "session-password"
    /\ Len(entries) = 1
    /\ HasEntry("A.txt")
    /\ GetPassword("B.txt") = <<112, 49>>
    /\ GetPassword("C.txt") = <<112, 49>>

\* C7: getPassword and getKey never answer from an entry whose expiry timestamp
\* is earlier than the current time, whether or not its timer has fired; in
\* timed-password mode the entry put stores expires at now + window, getPassword
\* returns the password right after put, and null once the window has elapsed
\* for every cached entry.
C7_PassiveExpiry ==
    /\ [](\A p \in QueryPaths :
            /\ PasswordSource(p) # 0 => Unexpired(entries[PasswordSource(p)])
            /\ KeySource(p) # 0 => Unexpired(entries[KeySource(p)])
            /\ (HasEntry(p) /\ ~Unexpired(EntryAt(p))) => GetKey(p) = NoKey
            /\ (mode = "timed-password" /\ \A i \in 1..Len(entries) : now > entries[i].expiry)
                  => GetPassword(p) = NoPassword)
    /\ [][\A p \in Paths, c \in Credentials, h \in Hints :
            (mode = "timed-password" /\ Put(p, c[1], h, c[2])) =>
                /\ GetPassword(p)' = c[1]
                /\ (EntryAt(p).expiry)' = now + timedWindowMs]_vars

\* the window of A.txt has elapsed and its timer has not fired yet
C7_Witness ==
    /\ mode = "timed-password"
    /\ HasEntry("A.txt")
    /\ EntryAt("A.txt").expiry < now
    /\ EntryAt("A.txt").key # NoKey
    /\ timers["A.txt"].st = "live"
    /\ GetPassword("A.txt") = NoPassword
    /\ GetKey("A.txt") = NoKey

\* C8: in keys-only mode no stored entry holds a password and getPassword is null;
\* put with a key makes getKey(p) return that key, put without a key leaves the
\* entries as they were.
C8_KeysOnlyIsolation ==
    /\ [](mode = "keys-only" =>
            /\ \A i \in 1..Len(entries) : entries[i].password = NoPassword
            /\ \A p \in QueryPaths : GetPassword(p) = NoPassword)
    /\ [][\A p \in Paths, c \in Credentials, h \in Hints :
            (mode = "keys-only" /\ Put(p, c[1], h, c[2])) =>
                IF c[2] # NoKey
                THEN GetKey(p)' = c[2] /\ GetPassword(p)' = NoPassword
                ELSE entries' = entries]_vars

\* a key was put for A.txt in keys-only mode
C8_Witness ==
    /\ mode = "keys-only"
    /\ HasEntry("A.txt")
    /\ GetKey("A.txt") \in Keys
    /\ GetPassword("A.txt") = NoPassword

\* C9: in no-storage mode the cache holds no entry, whatever sequence of put,
\* handleRename, clearFile, clear, setMode and timer firings ran before; so put,
\* in this mode, leaves the entries as they were: none.
C9_NoStorage == mode = "no-storage" => Len(entries) = 0

\* no-storage mode was entered from a session that had put, renamed and waited
C9_Witness ==
    /\ mode = "no-storage"
    /\ ticks > 0
    /\ orphans # EmptyBag
    /\ Len(entries) = 0

\* C10: right after setMode(m), for any m, the cache has no entries and
\* getPassword and getKey are null for every path; it stays so until a put.
C10_ModeSwitchWipes ==
    /\ [][\A m \in Modes : SetMode(m) =>
            /\ Len(entries') = 0
            /\ \A p \in QueryPaths : GetPassword(p)' = NoPassword /\ GetKey(p)' = NoKey]_vars
    /\ [][(Len(entries) = 0 /\ ~PutAny) =>
            /\ Len(entries') = 0
            /\ \A p \in QueryPaths : GetPassword(p)' = NoPassword /\ GetKey(p)' = NoKey]_vars

\* the cache is empty in a session whose earlier puts left a callback scheduled
C10_Witness ==
    /\ mode = "session-password"
    /\ Pending # {}
    /\ Len(entries) = 0

\* C11: when oldPath has an entry, handleRename(oldPath, newPath) leaves no entry
\* under oldPath and an entry under newPath with the password, key, hint and
\* expiry timestamp the entry of oldPath had; where the mode stores passwords and
\* that entry holds one and has not expired, getPassword(newPath) then returns it.
C11_RenameContinuity ==
    [][\A o \in Paths, n \in Paths :
          (HasEntry(o) /\ HandleRename(o, n)) =>
              /\ ~HasEntry(o)'
              /\ HasEntry(n)'
              /\ EntryAt(n)' = [EntryAt(o) EXCEPT !.path = n]
              /\ (/\ mode \in {"session-password", "timed-password"}
                  /\ EntryAt(o).password # NoPassword
                  /\ Unexpired(EntryAt(o))) => GetPassword(n)' = EntryAt(o).password]_vars

\* the entry put under A.txt is now under B.txt, with the timer put scheduled
C11_Witness ==
    /\ mode \in {"session-password", "timed-password"}
    /\ ~HasEntry("A.txt")
    /\ HasEntry("B.txt")
    /\ timers["B.txt"] = LiveTimer("A.txt", EntryAt("B.txt").expiry)
    /\ GetPassword("B.txt") = EntryAt("B.txt").password
    /\ GetPassword("B.txt") \in Passwords

\* C12: in timed-password mode and in session-password mode with a non-zero
\* timeout, the entry put(path) stored at time t under window W is in the cache at
\* every time before t + W, unless clearFile(path), clear, setMode, a later
\* put(path) or a handleRename naming path came after that put: no timer
\* scheduled by an earlier put removes it.
C12_PutResetsTimer ==
    \A p \in Paths :
        (putUntil[p] # NoExpiry /\ now < putUntil[p]) =>
            (HasEntry(p) /\ EntryAt(p).expiry = putUntil[p])

\* C13: right after clear(), and so right after setMode, no expiry callback
\* scheduled before the call is still pending.
C13_ClearCancelsTimers ==
    [][(ClearAny \/ SetModeAny) => Pending' = {}]_vars

\* C14: when the timer of an entry stored with an expiry fires (the handle the
\* timers map holds under the entry's path, due at the entry's expiry), the entry
\* is removed from the cache, whatever path handleRename has moved it to.
C14_ActiveExpiry ==
    [][\A s \in Paths :
          (HasEntry(s) /\ EntryAt(s).expiry = timers[s].due /\ TimerFire(s)) =>
              ~HasEntry(s)']_vars

C16_ParamsFromContainer ==
    /\ (DecodedWithRightPassword /\ tampered = "none") =>
            (result.kind = "value" /\ result.value = origin.plaintext)
    /\ (DecodedWithRightPassword /\ tampered = "params") => result.kind = "null"

\* a document written under a 12-byte iv, an 8-byte salt, SHA-256 and a 128-bit
\* key was decoded with its password
C16_Witness ==
    /\ DecodedWithRightPassword
    /\ tampered = "none"
    /\ container.encryption.ivLength = 12
    /\ container.encryption.keyDerivation.saltLength = 8
    /\ result.kind = "value"
    /\ result.value = <<97, 98>>

\* C17: parse succeeds, returning the object the text denotes, exactly for a JSON
\* text whose format member is the current or the legacy tag; for every other
\* text (no JSON, null, no format member, an unknown tag, the pending tag) it
\* throws and returns nothing.
C17_ParseAcceptsTags ==
    result.kind = "parse" =>
        /\ result.outcome.ok <=>
              (JsonParse(container).ok /\ container.format \in {AFE_FORMAT, LEGACY_FEP_FORMAT})
        /\ result.outcome.ok => result.outcome.fileData = container
        /\ ~result.outcome.ok => result.outcome.error \in {"SyntaxError", "TypeError", "Error"}

\* parse threw on the pending marker
C17_Witness ==
    /\ result.kind = "parse"
    /\ container.format = AFE_PENDING_FORMAT
    /\ ~result.outcome.ok
    /\ result.outcome.error = "Error"

\* C18: isEncryptedFile throws for no text, and returns true exactly when parse
\* of the same text succeeds.
C18_ProbeMatchesParse ==
    result.kind = "isEncryptedFile" =>
        /\ result.outcome \in BOOLEAN
        /\ result.outcome <=> Parse(container).ok

\* isEncryptedFile answered false for the text null, on which parse throws
C18_Witness ==
    /\ result.kind = "isEncryptedFile"
    /\ container = JsonNull
    /\ result.outcome = FALSE
    /\ Parse(container).error = "TypeError"

\* C19 as stated: decode of a document whose data, decoded from base64, has fewer
\* than ivLength + saltLength + 1 bytes reports a format error (it throws); it
\* does not return null, the answer kept for a wrong password.
C19_UndersizedIsFormatError ==
    (result.kind # "none" /\ tampered = "short") => result.kind = "throw"

\* C19: decode of a document whose data, decoded from base64, has fewer than
\* ivLength + saltLength + 1 bytes returns null, with the right password as with
\* a wrong one: the answer it also gives for a wrong password; it throws nothing.
C19_UndersizedIsNull ==
    (result.kind # "none" /\ tampered = "short") => result.kind = "null"

\* a document cut down to iv and salt alone was decoded with its password
C19_Witness ==
    /\ DecodedWithRightPassword
    /\ tampered = "short"
    /\ Len(Atob(container.data).bytes) = 32
    /\ result.kind = "null"

\* C20: when migrateIfNeeded has rewritten a legacy document (legacy tag, or a
\* version below the current one) under the password that decrypted it, the
\* stored document has the current tag and version, so needsMigration of it is
\* false, it has the same hint, and decode of it with that password returns the
\* plaintext the legacy document was made from; and a load that finds a
\* document needing no migration starts none.
C20_MigrationIdempotent ==
    /\ [][MigrateModified =>
            /\ Parse(container').ok
            /\ Parse(container').fileData.format = AFE_FORMAT
            /\ Parse(container').fileData.version = AFE_VERSION
            /\ ~NeedsMigration(Parse(container').fileData)
            /\ Parse(container').fileData.hint = origin.hint
            /\ Decode(container', currentPassword) =
                  [kind |-> "value", value |-> origin.plaintext]]_vars
    /\ [][(LoadSuperDone /\ fileData # NoFileData /\ ~NeedsMigration(fileData)) =>
            loadCall'.pc = "idle"]_vars

\* a migration of the view fails: encode or vault.modify rejects
MigrationFails == MigrateEncodeFails \/ MigrateModifyFails

C22_PendingDistinct ==
    /\ [](\A raw \in RawInputs \cup {container} :
             ~(IsPendingFile(raw) /\ IsEncryptedFile(raw)))
    /\ [](IsPendingFile(CreatePendingFile) /\ ~IsEncryptedFile(CreatePendingFile))
    /\ []((result.kind = "isPendingFile" /\ container = CreatePendingFile) =>
             result.outcome = TRUE)
    /\ []((result.kind = "isEncryptedFile" /\ IsPendingFile(container)) =>
             result.outcome = FALSE)
    /\ []((result.kind = "parse" /\ IsPendingFile(container)) =>
             (~result.outcome.ok /\ result.outcome.error = "Error"))
    /\ []((result.kind \in {"value", "null", "throw"} /\ IsPendingFile(container)) =>
             result.kind = "throw")
    /\ [](loadCall.pc \in {"decode", "decodeKey", "super", "migrate", "modify"} =>
             ~IsPendingFile(loadCall.raw))
    /\ [][(LoadRead /\ IsPendingFile(container)) =>
             (loadCall'.pc = "empty" /\ fileData' = fileData /\ encLog' = encLog)]_vars

\* the password of the note's path is cached, decode of the pending file has
\* thrown, and onLoadFile of the pending file has gone to the empty view
C22_Witness ==
    /\ container = CreatePendingFile
    /\ result.kind = "throw"
    /\ GetPassword(ViewPath) # NoPassword
    /\ loadCall.pc = "empty"

\* C23: needsMigration answers true exactly for a document whose format is the
\* legacy tag or whose version is below the current one; for a document of the
\* current tag and the current version it answers false
C23_NeedsMigrationExact ==
    result.kind = "needsMigration" =>
        /\ result.outcome <=>
              (container.format = LEGACY_FEP_FORMAT \/ container.version < AFE_VERSION)
        /\ (container.format = AFE_FORMAT /\ container.version = AFE_VERSION) =>
              result.outcome = FALSE

\* needsMigration answered true for a document of the current tag that states
\* the version 1
C23_Witness ==
    /\ result.kind = "needsMigration"
    /\ container.format = AFE_FORMAT
    /\ container.version = LEGACY_FEP_VERSION
    /\ result.outcome = TRUE

\* C24: in every mode getKey(p) is null when no entry is stored under p, and a
\* key it returns is the key of the entry stored under exactly p, which has not
\* expired; the key of an entry under another path is not returned for p
C24_KeyExactPath ==
    \A p \in QueryPaths :
        /\ ~HasEntry(p) => GetKey(p) = NoKey
        /\ GetKey(p) # NoKey =>
              /\ HasEntry(p)
              /\ Unexpired(EntryAt(p))
              /\ GetKey(p) = EntryAt(p).key
        /\ (HasEntry(p) /\ ~Unexpired(EntryAt(p))) => GetKey(p) = NoKey

\* a key is cached under A.txt and returned for it, and getKey of B.txt and of
\* C.txt, which have no entry, is null
C24_Witness ==
    /\ HasEntry("A.txt")
    /\ GetKey("A.txt") # NoKey
    /\ ~HasEntry("B.txt")
    /\ GetKey("B.txt") = NoKey
    /\ GetKey("C.txt") = NoKey

\* what put(p, pw, h, k) is to leave under p, by mode and configuration
PutExpiryAsConfigured(p, k) ==
    CASE mode = "timed-password" ->
            /\ HasEntry(p)'
            /\ EntryAt(p)'.expiry = now + timedWindowMs
            /\ timers'[p] = LiveTimer(p, now + timedWindowMs)
      [] mode = "session-password" /\ sessionTimeoutMs > 0 ->
            /\ HasEntry(p)'
            /\ EntryAt(p)'.expiry = now + sessionTimeoutMs
            /\ timers'[p] = LiveTimer(p, now + sessionTimeoutMs)
      [] mode = "session-password" /\ sessionTimeoutMs <= 0 ->
            /\ HasEntry(p)'
            /\ EntryAt(p)'.expiry = NoExpiry
            /\ timers'[p] = NoTimer
      [] mode = "keys-only" ->
            /\ k # NoKey => (HasEntry(p)' /\ EntryAt(p)'.expiry = NoExpiry)
            /\ timers'[p] = NoTimer
      [] OTHER -> TRUE

\* C25: put sets the expiry by mode: timed-password now + the timed window,
\* with a timer; session-password with a timeout above zero now + the timeout,
\* with a timer; session-password with the timeout configured as zero or as a
\* negative number of minutes no expiry and no timer; keys-only no expiry and
\* no timer
C25_PutExpiryPerMode ==
    /\ [][\A p \in Paths, c \in Credentials, h \in Hints :
            Put(p, c[1], h, c[2]) => PutExpiryAsConfigured(p, c[2])]_vars
    /\ [][\A m \in MinuteChoices :
            (m <= 0 /\ SetSessionTimeout(m)) => sessionTimeoutMs' = 0]_vars
    /\ [](sessionTimeoutMs >= 0)

\* the timeout is zero and put has stored a password under A.txt with no expiry
\* and no timer
C25_Witness ==
    /\ mode = "session-password"
    /\ sessionTimeoutMs = 0
    /\ HasEntry("A.txt")
    /\ EntryAt("A.txt").password # NoPassword
    /\ EntryAt("A.txt").expiry = NoExpiry
    /\ timers["A.txt"] = NoTimer

\* C26: setSessionTimeout and setTimedWindow change the configured duration
\* they are about and nothing else: the entries with their expiry timestamps,
\* the timers, the mode and the other duration stay as they are; a put takes
\* the durations configured at the time of its call
C26_ConfigOnNextPut ==
    /\ [][\A m \in MinuteChoices : SetSessionTimeout(m) =>
            /\ sessionTimeoutMs' = (IF m <= 0 THEN 0 ELSE m * 60000)
            /\ entries' = entries
            /\ timers' = timers
            /\ Pending' = Pending
            /\ timedWindowMs' = timedWindowMs
            /\ mode' = mode]_vars
    /\ [][\A sec \in SecondChoices : SetTimedWindow(sec) =>
            /\ timedWindowMs' = sec * 1000
            /\ entries' = entries
            /\ timers' = timers
            /\ Pending' = Pending
            /\ sessionTimeoutMs' = sessionTimeoutMs
            /\ mode' = mode]_vars
    /\ [][\A p \in Paths, c \in Credentials, h \in Hints : Put(p, c[1], h, c[2]) =>
            /\ mode = "timed-password" =>
                  (EntryAt(p)'.expiry - now = timedWindowMs /\ timers'[p].due - now = timedWindowMs)
            /\ (mode = "session-password" /\ sessionTimeoutMs > 0) =>
                  (EntryAt(p)'.expiry - now = sessionTimeoutMs
                   /\ timers'[p].due - now = sessionTimeoutMs)
            /\ (mode = "session-password" /\ sessionTimeoutMs = 0) =>
                  EntryAt(p)'.expiry = NoExpiry]_vars

\* the entry of A.txt keeps the expiry and the timer its put gave it under a
\* timeout of one minute; the timeout was then set to zero, and the put of
\* B.txt that followed stored no expiry
C26_Witness ==
    /\ mode = "session-password"
    /\ sessionTimeoutMs = 0
    /\ HasEntry("A.txt")
    /\ EntryAt("A.txt").expiry = 60000
    /\ timers["A.txt"] = LiveTimer("A.txt", 60000)
    /\ HasEntry("B.txt")
    /\ EntryAt("B.txt").expiry = NoExpiry
    /\ timers["B.txt"] = NoTimer

\* C27: clearFile(p) leaves no entry under p and no timer recorded for p; the
\* entry (with its expiry) and the timer of every other path, the callbacks
\* scheduled without a handle and the configuration are as before; with no
\* entry under p the entries are unchanged
C27_ClearFileFrame ==
    [][\A p \in Paths : ClearFile(p) =>
          /\ ~HasEntry(p)'
          /\ timers'[p] = NoTimer
          /\ \A q \in Paths \ {p} :
                /\ HasEntry(q)' <=> HasEntry(q)
                /\ HasEntry(q) => EntryAt(q)' = EntryAt(q)
                /\ timers'[q] = timers[q]
          /\ Len(entries') = Len(entries) - (IF HasEntry(p) THEN 1 ELSE 0)
          /\ ~HasEntry(p) => entries' = entries
          /\ orphans' = orphans
          /\ <<mode, sessionTimeoutMs, timedWindowMs>>' = <<mode, sessionTimeoutMs, timedWindowMs>>]_vars

\* A.txt has neither entry nor timer while B.txt has its entry, its expiry and
\* its live timer
C27_Witness ==
    /\ ~HasEntry("A.txt")
    /\ timers["A.txt"] = NoTimer
    /\ HasEntry("B.txt")
    /\ EntryAt("B.txt").expiry = 60000
    /\ timers["B.txt"] = LiveTimer("B.txt", 60000)
    /\ now = 60000

\* C28: every callback still scheduled has its handle in the timers map, the
\* handle a path is recorded under is that of a callback that clears this very
\* path, and no path has more than one callback scheduled to clear it
C28_TimerBookkeeping ==
    /\ orphans = EmptyBag
    /\ \A p \in Paths : timers[p].st = "live" => timers[p].path = p
    /\ \A p \in Paths :
          Cardinality({q \in Paths : timers[q].st = "live" /\ timers[q].path = p})
            + Cardinality({o \in BagToSet(orphans) : o.path = p}) <= 1

\* no call of save() is under way
SavesFinished == \A s \in SaveIds : saveCalls[s].pc \in {"idle", "done"}

\* C29: a migration write that finds in the file a container a save() has
\* written since the migration started (one of the current format that
\* decrypts under the view's password) leaves the file decrypting to the same
\* text; and when the migration ends with no save under way and the editor
\* content saved, the file decrypts to the editor content
C29_MigrationKeepsSave ==
    /\ [][(/\ MigrateModified
            /\ Parse(container).ok
            /\ ~NeedsMigration(Parse(container).fileData)
            /\ Decode(container, currentPassword).kind = "value") =>
              Decode(container', currentPassword) = Decode(container, currentPassword)]_vars
    /\ [][(MigrateModified /\ SavesFinished /\ cachedPlaintext = editorData) =>
              Decode(container', currentPassword) =
                  [kind |-> "value", value |-> editorData.text]]_vars

\* C30: when changePassword shows "Password changed successfully.", the
\* container the view holds for storage decrypts under the new password to the
\* text of the editor
C30_ChangePasswordReencrypts ==
    [][(changeCall'.notice /\ ~changeCall.notice) =>
          Decode(encryptedJsonForSave', changeCall'.password) =
              [kind |-> "value", value |-> editorData'.text]]_vars

\* a call of save() made with a file, saving enabled, no other save in
\* progress, and an editor content that is not an encrypted document and differs
\* from the cached plaintext
SaveOfEdits(s) ==
    /\ SaveCall(s)
    /\ file # NoFile
    /\ isSavingEnabled
    /\ ~isSavingInProgress
    /\ ~IsEncryptedFile(editorData)
    /\ editorData # cachedPlaintext

\* C31: edits are persisted whenever saving is enabled: in every session mode
\* (keys-only with a note unlocked by a cached key included), a call of save()
\* on a decrypted note with saving enabled and an editor content different from
\* the cached plaintext goes on to encode that content for storage
C31_EditsPersisted ==
    [][\A s \in SaveIds : SaveOfEdits(s) => saveCalls'[s].pc = "encode"]_vars

\* the view, holding a file, shows one of its cards: the unlock form (locked),
\* the set-password card (pending) or a plain message (empty file, invalid
\* format)
ShowsCard == file # NoFile /\ overlay # "none"

\* doEncrypt has written the encrypted file and, in keys-only mode, awaits the
\* key; its card is still shown
EncryptionWritten == encryptCall.pc = "deriveKey"

\* a call of save() made in this step returns without encoding anything
SavesNothing == \A s \in SaveIds :
                   saveCalls[s].pc = "idle" /\ saveCalls'[s].pc # "idle"
                       => saveCalls'[s] = DoneSave

\* isSavingEnabled becomes true only where onLoadFile has decrypted the file,
\* doUnlock has, doEncrypt has encrypted it, or setState ends on a view that
\* holds a password; a password the view holds decrypts what it last stored
EnabledOnlyOnceOpen ==
    /\ [](currentPassword # NoPassword
            => Decode(encryptedJsonForSave, currentPassword).kind = "value")
    /\ [][~isSavingEnabled /\ isSavingEnabled'
            => \/ loadCall.pc = "super" /\ loadCall'.pc \in {"idle", "migrate"}
               \/ unlockCall'.outcome = "unlocked"
               \/ unlockCall'.pc = "migrate"
               \/ encryptCall'.outcome = "encrypted"
               \/ /\ stateCall.pc = "super"
                  /\ stateCall'.pc = "idle"
                  /\ currentPassword # NoPassword]_vars

\* isSavingEnabled is false when onUnloadFile and when lockAndClose end
DisabledOnClose ==
    [][\/ unloadCall = "super" /\ unloadCall' = "idle"
       \/ lockCall' # lockCall /\ lockCall'.outcome = "closed"
            => ~isSavingEnabled']_vars

UnlockStep == unlockCall' # unlockCall

\* C36: every step of doUnlock that changes the session cache is taken after
\* decode returned a plaintext for the password entered; a call of doUnlock
\* that ends on a wrong password or on a file parse rejects has left the
\* session cache as it was, and the view is locked as before: the unlock form
\* is shown, the view holds no password, saving is disabled
C36_CachesVerifiedOnly ==
    /\ [][UnlockStep /\ smVars' # smVars
            => /\ unlockCall.pc \in {"decode", "deriveKey"}
               /\ Decode(unlockCall.raw, unlockCall.password).kind = "value"]_vars
    /\ [][UnlockStep /\ unlockCall'.outcome \in {"wrong", "invalid"}
            => /\ smVars' = smVars
               /\ overlay' = "unlock"
               /\ currentPassword' = NoPassword
               /\ ~isSavingEnabled'
               /\ editorData' = editorData]_vars

\* doUnlock has ended on a wrong password with the cache still holding what it
\* was given for the path before
C36_Witness ==
    /\ unlockCall.outcome = "wrong"
    /\ overlay = "unlock"
    /\ HasEntry(ViewPath)
    /\ ~isSavingEnabled

\* doEncrypt's vault.modify returns: the container it made is stored
PendingCompleted == encryptCall.pc = "modify" /\ encryptCall'.pc # "modify"

\* C33: when the set-password step of a note that toEncrypted left pending
\* completes, the stored container decrypts under the password entered to the
\* content the .md file had ("a"), whatever happened in between, a rename of
\* the file included
C33_PendingKeepsPlaintext ==
    [][PendingCompleted
         => Decode(container', encryptCall.password) = [kind |-> "value", value |-> <<97>>]]_vars

\* C34: isConverting is true exactly while a call of toEncrypted or
\* toDecrypted is between its this.isConverting = true and its end, overlapping
\* calls, early returns and calls that throw included
C34_FlagTracksConversions ==
    isConverting <=> \E c \in ConvIds : Converting(c)

\* call c of the converter takes a step of a toDecrypted that has not got a
\* plaintext: up to the return of decode, or ending for want of a cached
\* password or on a null plaintext
UndecryptedStep(c) ==
    /\ convCalls'[c] # convCalls[c]
    /\ convCalls[c].pc \in {"idle", "read", "decode"}
    /\ \/ convCalls'[c].kind = "toDecrypted" /\ convCalls'[c].pc \in {"read", "decode"}
       \/ convCalls'[c].pc = "done" /\ convCalls'[c].outcome \in {"nopassword", "wrong"}

\* the step leaves the stored content, the path of the file, the leaves, the
\* kept plaintexts and the session cache as they are
NoteUntouched ==
    /\ container' = container
    /\ notePath' = notePath
    /\ noteExt' = noteExt
    /\ leafOpen' = leafOpen
    /\ pendingPlaintext' = pendingPlaintext
    /\ smVars' = smVars

\* C35 as stated: a toDecrypted that finds no cached password, or whose decode
\* returns null, has changed neither the stored content nor the path of the
\* file and has navigated no leaf away, and isConverting is false when it ends
C35_FailedDecryptLeavesFlagFalse ==
    [][\A c \in ConvIds :
          UndecryptedStep(c)
             => /\ NoteUntouched
                /\ convCalls'[c].pc = "done" => ~isConverting']_vars

\* C35, amended: a toDecrypted that finds no cached password, or whose decode
\* returns null, has changed neither the stored content nor the path of the
\* file and has navigated no leaf away; isConverting is false when it ends
\* unless another conversion is in progress
C35_FailedDecryptChangesNothing ==
    [][\A c \in ConvIds :
          UndecryptedStep(c)
             => /\ NoteUntouched
                /\ convCalls'[c].pc = "done" /\ (\A d \in ConvIds : ~Converting(d)')
                      => ~isConverting']_vars

\* a toDecrypted has ended on a null plaintext, another for want of a cached
\* password; a leaf still shows the .locked file
C35_Witness ==
    /\ \E c \in ConvIds : convCalls[c].outcome = "wrong"
    /\ \E c \in ConvIds : convCalls[c].outcome = "nopassword"
    /\ noteExt = LOCKED_EXTENSION
    /\ leafOpen
    /\ ~isConverting
====
